---- MODULE Spec2Model ----
(***************************************************************************)
(* Model of the stock screener: the snapshot store (stock_data), the alert *)
(* store (alerts), the four live strategy screens, record_alerts and the   *)
(* backtest (screen_on_date, calculate_returns, run_backtest).             *)
(*                                                                         *)
(* Numbers.  The code computes with floats; the model computes in fixed    *)
(* point over the integers:                                                *)
(*   - a dividend yield, and every ratio the screens compute (yield        *)
(*     expansion, price discount, drop from high, distance from low,       *)
(*     return), is held in units of 1/RatioScale, so the fraction 0.035 is *)
(*     350 and the percent-style input 3.5 is 35000;                       *)
(*   - market capitalisation is held in millions of EUR;                   *)
(*   - beta and volatility are held in hundredths;                         *)
(*   - a date is a day number, so date arithmetic is integer arithmetic.   *)
(* A float division a / b is the integer quotient of the scaled operands.  *)
(*                                                                         *)
(* Scale.  Snapshots exist on a grid of NumDates dates, DateStep days      *)
(* apart.  The code's thresholds on a NUMBER OF ROWS (30 rows of history,  *)
(* 100 and 200 prices, the 50/200-row averages, the 252 prices of the      *)
(* 52-week range, more than 500 tickers on a date) are scaled to this      *)
(* grid; each such definition names the source's value.  Thresholds in     *)
(* DAYS (90, 252, 30 days a month) are the source's.                       *)
(***************************************************************************)
EXTENDS Integers, Sequences, FiniteSets, TLC

VARIABLES
    stock_data,   \* table stock_data: ticker -> date -> row, or NoRow
    alerts,       \* table alerts: set of [ticker, strategy, alert_date]
    now,          \* the current UTC date, SQLite's date('now')
    tz,           \* local date minus UTC date: datetime.now() is local time
    opps,         \* strategy -> what the last run returned for it: the
                  \* list, or raised = TRUE for an uncaught exception
    trailing,     \* the trailing rows the last screen handed to its rule
    lastOp,       \* the operation that ran last
    bt,           \* the outcome of the last backtest operation
    calc,         \* the last call of an indicator function: its arguments
                  \* and what it returned
    ran,          \* the current run: the screens that have run in it and
                  \* the alerts table as the run found it
    mail          \* the email side: the alerts that went out in an email
                  \* that was sent, and the outcome of the last call of
                  \* process_and_send_alerts

vars == <<stock_data, alerts, now, tz, opps, trailing, lastOp, bt, calc,
          ran, mail>>

----------------------------------------------------------------------------
(* Bounds of the model.                                                    *)

NumDates == 5      \* number of dates of the snapshot grid
DateStep == 30     \* days between two dates of the grid
MaxTicks == 1      \* days the clock may advance in one behaviour
MaxAlerts == 3     \* rows the alerts table may hold

(* Program constants.                                                      *)

TopStocksLimit == 400        \* get_top_*_stocks(400)
TopStocksMinCap == 100       \* market_cap_eur > 100000000, in millions
TopVolatilityMinBeta == 120  \* sd.beta > 1.2, in hundredths
HistoryDays == 90            \* get_stock_history(ticker, days=90)
PriceHistoryDays == 252      \* get_price_history(db, ticker, days=252)
MinHistoryRows == 2          \* len(history) < 30, scaled to the grid
Min52WeekPrices == 3         \* len(prices) < 100, scaled to the grid
ShortPeriod == 2             \* calculate_sma(prices, 50), scaled
LongPeriod == 3              \* calculate_sma(prices, 200), scaled
Week52Period == 4            \* calculate_52_week_high_low: 252 rows, scaled
DaysPerMonth == 30           \* timedelta(days=months_back * 30)
MinBreadth == 1              \* HAVING num_stocks > 500, scaled to Tickers
BacktestWindowDays == 90     \* date(?, '-90 days')

RatioScale == 100 * 100      \* fixed-point unit of yields and ratios
YieldOne == RatioScale       \* the yield 1.0

----------------------------------------------------------------------------
(* Values.                                                                 *)

NoRow == [absent |-> TRUE]   \* no row for this (ticker, date)
None == -1           \* SQL NULL, Python None; no stored number is negative
Absent == -2         \* in a price series: no row on this date
Missing == -99       \* a key the configuration file does not hold

Tickers == {"A", "B"}
TickerOrder == <<"A", "B">>     \* rowid order of the rows of one date

DateOf(i) == i * DateStep
Dates == {DateOf(i) : i \in 1..NumDates}
Today0 == DateOf(NumDates)

Strategies == {"dividend", "volatility", "52_week_low", "golden_cross"}

\* Python truthiness of an optional number: `not x`
Falsy(x) == x = None \/ x = 0

Min(a, b) == IF a <= b THEN a ELSE b
MaxOf(S) == CHOOSE x \in S : \A y \in S : y <= x
MinOf(S) == CHOOSE x \in S : \A y \in S : x <= y

RECURSIVE SumSeq(_)
SumSeq(s) == IF s = <<>> THEN 0 ELSE Head(s) + SumSeq(Tail(s))

\* the elements of a set of integers, largest first (ORDER BY ... DESC)
SeqDesc(S) ==
    [p \in 1..Cardinality(S) |->
        CHOOSE d \in S : Cardinality({e \in S : e > d}) = p - 1]

\* list.sort(key=...): stable, ascending by keys[i]
StableSortAsc(seq, keys) ==
    LET n == Len(seq)
        rank(i) == 1 + Cardinality({j \in 1..n :
                        keys[j] < keys[i] \/ (keys[j] = keys[i] /\ j < i)})
    IN [p \in 1..n |-> seq[CHOOSE i \in 1..n : rank(i) = p]]

\* list.sort(key=..., reverse=True) and ORDER BY key DESC: descending, and
\* elements with equal keys keep their order
StableSortDesc(seq, keys) ==
    LET n == Len(seq)
        rank(i) == 1 + Cardinality({j \in 1..n :
                        keys[j] > keys[i] \/ (keys[j] = keys[i] /\ j < i)})
    IN [p \in 1..n |-> seq[CHOOSE i \in 1..n : rank(i) = p]]

\* a float quotient n / d of two quantities of the same unit, as a ratio
Ratio(n, d) == (n * RatioScale) \div d

----------------------------------------------------------------------------
(* The configuration, config/screening_thresholds.json, read by            *)
(* load_config.  The file is not part of the sources; the values are       *)
(* those the docstrings of the screens name.                               *)

config ==
    [dividend |->
        [min_current_yield |-> 300,              \* 0.03
         max_pe_ratio |-> 15,
         min_market_cap_eur |-> 100,             \* 100 million
         min_yield_expansion_pp |-> 20,          \* 0.002
         min_price_discount_vs_90d_avg |-> 500], \* 0.05
     volatility |->
        [min_market_cap_eur |-> 50,
         min_beta |-> 120,                       \* 1.2
         min_volatility |-> 40,                  \* 0.4
         max_pe_ratio |-> 25,
         min_drop_from_high |-> 1000],           \* 0.10
     week_52_low |->
        [min_market_cap_eur |-> 100,
         max_pe_ratio |-> 15,
         min_dividend_yield |-> 400,             \* 0.04
         max_distance_from_low_pct |-> 500],     \* 0.05
     golden_cross |->
        [enabled |-> TRUE,
         min_market_cap_eur |-> 100,
         max_pe_ratio |-> 25,
         lookback_days |-> 5,
         min_dividend_yield |-> 300],            \* 0.03
     alerts |->
        [duplicate_alert_days |-> 1]]

----------------------------------------------------------------------------
(* common/database.py                                                      *)

HasRow(db, t, d) == db.stock_data[t][d] # NoRow
RowDates(db, t) == {d \in Dates : HasRow(db, t, d)}

\* SELECT sd.*, s.sector: one row of stock_data with its key
StockRow(db, t, d) ==
    [ticker |-> t, date |-> d,
     price_eur |-> db.stock_data[t][d].price_eur,
     year_high_eur |-> db.stock_data[t][d].year_high_eur,
     market_cap_eur |-> db.stock_data[t][d].market_cap_eur,
     dividend_yield |-> db.stock_data[t][d].dividend_yield,
     pe_ratio |-> db.stock_data[t][d].pe_ratio,
     beta |-> db.stock_data[t][d].beta,
     volatility |-> db.stock_data[t][d].volatility,
     sector |-> db.stock_data[t][d].sector]

\* WHERE sd.date = (SELECT MAX(date) FROM stock_data WHERE ticker = sd.ticker)
LatestRows(db) ==
    LET ts == SelectSeq(TickerOrder, LAMBDA t : RowDates(db, t) # {})
    IN [i \in 1..Len(ts) |-> StockRow(db, ts[i], MaxOf(RowDates(db, ts[i])))]

VolatileSectors == {"Technology", "Healthcare", "Biotechnology", "Energy",
                    "Basic Materials", "Consumer Cyclical"}

get_top_dividend_stocks(db, limit) ==
    LET rows == SelectSeq(LatestRows(db), LAMBDA r :
                    r.dividend_yield > 0 /\ r.market_cap_eur > TopStocksMinCap)
        sorted == StableSortDesc(rows,
                    [i \in 1..Len(rows) |-> rows[i].dividend_yield])
    IN SubSeq(sorted, 1, Min(limit, Len(sorted)))

get_top_volatility_stocks(db, limit) ==
    LET rows == SelectSeq(LatestRows(db), LAMBDA r :
                    /\ r.market_cap_eur > TopStocksMinCap
                    /\ (r.beta > TopVolatilityMinBeta
                        \/ r.sector \in VolatileSectors))
        sorted == StableSortDesc(rows,
                    [i \in 1..Len(rows) |-> rows[i].beta + rows[i].volatility])
    IN SubSeq(sorted, 1, Min(limit, Len(sorted)))

\* INSERT INTO alerts ... alert_date = datetime.now(): the local date
add_alert(db, ticker, strategy) ==
    [db EXCEPT !.alerts = @ \cup
        {[ticker |-> ticker, strategy |-> strategy, alert_date |-> now + tz]}]

\* get_recent_alerts with a window that leaves out its first day
get_recent_alerts_open(db, ticker, days) ==
    {a \in db.alerts : a.ticker = ticker /\ a.alert_date > now - days}

\* WHERE ticker = ? AND date(alert_date) >= date('now', '-N days')
get_recent_alerts(db, ticker, days) ==
    {a \in db.alerts : a.ticker = ticker /\ a.alert_date >= now - days}

\* WHERE ticker = ? AND date >= date('now', '-N days') ORDER BY date DESC
get_stock_history(db, ticker, days) ==
    LET ds == SeqDesc({d \in RowDates(db, ticker) : d >= now - days})
    IN [i \in 1..Len(ds) |-> StockRow(db, ticker, ds[i])]

----------------------------------------------------------------------------
(* screener_enhanced.py                                                    *)

\* if current_yield > 1: current_yield = current_yield / 100
NormalizeYield(y) == IF y > YieldOne THEN y \div 100 ELSE y

\* prices = [h['price_eur'] for h in history if h['price_eur']]
TruthyPrices(history) ==
    LET hs == SelectSeq(history, LAMBDA h : ~Falsy(h.price_eur))
    IN [i \in 1..Len(hs) |-> hs[i].price_eur]

calculate_price_avg(history) ==
    LET prices == TruthyPrices(history)
    IN IF prices # <<>> THEN SumSeq(prices) \div Len(prices) ELSE 0

\* What a screen has produced so far: the opportunities appended, the
\* trailing rows it fetched (ticker, evaluation date, dates of the rows),
\* and whether an exception ended it.
EmptyScan == [opps |-> <<>>, trail |-> {}, raised |-> FALSE]

Handed(acc, stock, history) ==
    [acc EXCEPT !.trail = @ \cup
        {[ticker |-> stock.ticker, eval_date |-> stock.date,
          dates |-> {history[i].date : i \in 1..Len(history)}]}]

\* One iteration of the loop of screen_dividend_opportunities.
DividendStep(db, cfg, acc, stock) ==
    LET thresholds == cfg.dividend
        ticker == stock.ticker
        current_yield == NormalizeYield(stock.dividend_yield)
        current_price == stock.price_eur
        history == get_stock_history(db, ticker, HistoryDays)
        acc1 == Handed(acc, stock, history)
        dividend_per_share == current_yield * current_price
        price_90d_avg == calculate_price_avg(history)
        historical_implied_yield == dividend_per_share \div price_90d_avg
        yield_expansion_pp == current_yield - historical_implied_yield
        price_discount == Ratio(price_90d_avg - current_price, price_90d_avg)
        recent_alerts ==
            get_recent_alerts(db, ticker, cfg.alerts.duplicate_alert_days)
    IN  IF ~(/\ current_yield >= thresholds.min_current_yield
             /\ stock.pe_ratio > 0
             /\ stock.pe_ratio <= thresholds.max_pe_ratio
             /\ stock.market_cap_eur >= thresholds.min_market_cap_eur)
        THEN acc
        ELSE IF Len(history) < MinHistoryRows THEN acc1
        ELSE IF current_yield = 0 \/ current_price = 0 THEN acc1
        ELSE IF current_price = None
            THEN [acc1 EXCEPT !.raised = TRUE]   \* float * None: TypeError
        ELSE IF price_90d_avg = 0 THEN acc1
        ELSE IF /\ yield_expansion_pp >= thresholds.min_yield_expansion_pp
                /\ price_discount >= thresholds.min_price_discount_vs_90d_avg
                /\ recent_alerts = {}
            THEN [acc1 EXCEPT !.opps = Append(@,
                    [ticker |-> ticker,
                     price_eur |-> current_price,
                     price_90d_avg |-> price_90d_avg,
                     price_discount |-> price_discount,
                     dividend_yield |-> current_yield,
                     yield_expansion_pp |-> yield_expansion_pp,
                     pe_ratio |-> stock.pe_ratio,
                     market_cap_eur |-> stock.market_cap_eur])]
        ELSE acc1

RECURSIVE DividendScan(_, _, _, _, _)
DividendScan(db, cfg, cands, i, acc) ==
    IF i > Len(cands) \/ acc.raised THEN acc
    ELSE DividendScan(db, cfg, cands, i + 1, DividendStep(db, cfg, acc, cands[i]))

\* screen_dividend_opportunities returning the list as the loop built it
screen_dividend_opportunities_unsorted(db, cfg) ==
    DividendScan(db, cfg, get_top_dividend_stocks(db, TopStocksLimit), 1,
                 EmptyScan)

screen_dividend_opportunities(db, cfg) ==
    LET scan == DividendScan(db, cfg,
                    get_top_dividend_stocks(db, TopStocksLimit), 1, EmptyScan)
    IN [scan EXCEPT !.opps = StableSortDesc(@,
            [i \in 1..Len(@) |-> @[i].yield_expansion_pp])]

\* One iteration of the loop of screen_volatility_opportunities.
VolatilityStep(db, cfg, acc, stock) ==
    LET thresholds == cfg.volatility
        ticker == stock.ticker
        history == get_stock_history(db, ticker, HistoryDays)
        acc1 == Handed(acc, stock, history)
        prices == TruthyPrices(history)
        high_90d == MaxOf({prices[i] : i \in 1..Len(prices)})
        drop_from_high == Ratio(stock.price_eur - high_90d, high_90d)
        recent_alerts ==
            get_recent_alerts(db, ticker, cfg.alerts.duplicate_alert_days)
    IN  IF ~(/\ stock.market_cap_eur >= thresholds.min_market_cap_eur
             /\ (\/ stock.beta >= thresholds.min_beta
                 \/ stock.volatility >= thresholds.min_volatility))
        THEN acc
        ELSE IF stock.pe_ratio > 0 /\ stock.pe_ratio > thresholds.max_pe_ratio
            THEN acc
        ELSE IF Len(history) < MinHistoryRows THEN acc1
        ELSE IF prices = <<>>
            THEN [acc1 EXCEPT !.raised = TRUE]   \* max() of nothing: ValueError
        ELSE IF Falsy(high_90d) \/ Falsy(stock.price_eur) THEN acc1
        ELSE IF /\ drop_from_high <= -thresholds.min_drop_from_high
                /\ recent_alerts = {}
            THEN [acc1 EXCEPT !.opps = Append(@,
                    [ticker |-> ticker,
                     price_eur |-> stock.price_eur,
                     high_90d |-> high_90d,
                     beta |-> stock.beta,
                     volatility |-> stock.volatility,
                     pe_ratio |-> stock.pe_ratio,
                     market_cap_eur |-> stock.market_cap_eur,
                     drop_from_high |-> drop_from_high])]
        ELSE acc1

RECURSIVE VolatilityScan(_, _, _, _, _)
VolatilityScan(db, cfg, cands, i, acc) ==
    IF i > Len(cands) \/ acc.raised THEN acc
    ELSE VolatilityScan(db, cfg, cands, i + 1, VolatilityStep(db, cfg, acc, cands[i]))

screen_volatility_opportunities(db, cfg) ==
    LET scan == VolatilityScan(db, cfg,
                    get_top_volatility_stocks(db, TopStocksLimit), 1, EmptyScan)
    IN [scan EXCEPT !.opps = StableSortAsc(@,
            [i \in 1..Len(@) |-> @[i].drop_from_high])]

\* record_alerts(db, opportunities, strategy): one add_alert per opportunity
RECURSIVE record_alerts(_, _, _)
record_alerts(db, opportunities, strategy) ==
    IF opportunities = <<>> THEN db
    ELSE record_alerts(add_alert(db, Head(opportunities).ticker, strategy),
                       Tail(opportunities), strategy)

----------------------------------------------------------------------------
(* common/technical_indicators.py                                          *)

\* prices[-n:], for 0 < n
LastN(prices, n) ==
    IF Len(prices) <= n THEN prices
    ELSE SubSeq(prices, Len(prices) - n + 1, Len(prices))

\* prices[:-i], for 0 < i
DropLast(prices, i) ==
    IF i >= Len(prices) THEN <<>> ELSE SubSeq(prices, 1, Len(prices) - i)

calculate_sma(prices, period) ==
    IF Len(prices) < period THEN None
    ELSE SumSeq(LastN(prices, period)) \div period

\* detect_golden_cross looking one observation further back
detect_golden_cross_wide(prices, lookback_days) ==
    LET ma_50_current == calculate_sma(prices, ShortPeriod)
        ma_200_current == calculate_sma(prices, LongPeriod)
        scanned == 1..Min(lookback_days + 1, Len(prices) - LongPeriod)
        ma_50_past(i) == calculate_sma(DropLast(prices, i), ShortPeriod)
        ma_200_past(i) == calculate_sma(DropLast(prices, i), LongPeriod)
    IN  IF Len(prices) < LongPeriod
            THEN [detected |-> FALSE, ma_50 |-> None, ma_200 |-> None]
        ELSE IF Falsy(ma_50_current) \/ Falsy(ma_200_current)
            THEN [detected |-> FALSE, ma_50 |-> ma_50_current,
                  ma_200 |-> ma_200_current]
        ELSE IF ma_50_current <= ma_200_current
            THEN [detected |-> FALSE, ma_50 |-> ma_50_current,
                  ma_200 |-> ma_200_current]
        ELSE [detected |-> \E i \in scanned :
                            /\ ~Falsy(ma_50_past(i))
                            /\ ~Falsy(ma_200_past(i))
                            /\ ma_50_past(i) <= ma_200_past(i),
              ma_50 |-> ma_50_current, ma_200 |-> ma_200_current]

\* detect_golden_cross(prices, lookback_days): (detected, ma_50, ma_200)
detect_golden_cross(prices, lookback_days) ==
    LET ma_50_current == calculate_sma(prices, ShortPeriod)
        ma_200_current == calculate_sma(prices, LongPeriod)
        \* range(1, min(lookback_days + 1, len(prices) - 200))
        scanned == 1..(Min(lookback_days + 1, Len(prices) - LongPeriod) - 1)
        ma_50_past(i) == calculate_sma(DropLast(prices, i), ShortPeriod)
        ma_200_past(i) == calculate_sma(DropLast(prices, i), LongPeriod)
    IN  IF Len(prices) < LongPeriod
            THEN [detected |-> FALSE, ma_50 |-> None, ma_200 |-> None]
        ELSE IF Falsy(ma_50_current) \/ Falsy(ma_200_current)
            THEN [detected |-> FALSE, ma_50 |-> ma_50_current,
                  ma_200 |-> ma_200_current]
        ELSE IF ma_50_current <= ma_200_current
            THEN [detected |-> FALSE, ma_50 |-> ma_50_current,
                  ma_200 |-> ma_200_current]
        ELSE [detected |-> \E i \in scanned :
                            /\ ~Falsy(ma_50_past(i))
                            /\ ~Falsy(ma_200_past(i))
                            /\ ma_50_past(i) <= ma_200_past(i),
              ma_50 |-> ma_50_current, ma_200 |-> ma_200_current]

\* calculate_52_week_high_low over the whole series
calculate_52_week_high_low_whole(prices) ==
    LET values == {prices[i] : i \in 1..Len(prices)}
    IN [week_52_high |-> MaxOf(values), week_52_low |-> MinOf(values)]

calculate_52_week_high_low(prices) ==
    LET period == IF Len(prices) < Week52Period THEN Len(prices)
                  ELSE Week52Period
        recent_prices == LastN(prices, period)
        values == {recent_prices[i] : i \in 1..Len(recent_prices)}
    IN [week_52_high |-> MaxOf(values), week_52_low |-> MinOf(values)]

\* detect_death_cross without the test of today's relation
detect_death_cross_past_only(prices, lookback_days) ==
    LET ma_50_current == calculate_sma(prices, ShortPeriod)
        ma_200_current == calculate_sma(prices, LongPeriod)
        scanned == 1..(Min(lookback_days + 1, Len(prices) - LongPeriod) - 1)
        ma_50_past(i) == calculate_sma(DropLast(prices, i), ShortPeriod)
        ma_200_past(i) == calculate_sma(DropLast(prices, i), LongPeriod)
    IN  IF Len(prices) < LongPeriod
            THEN [detected |-> FALSE, ma_50 |-> None, ma_200 |-> None]
        ELSE [detected |-> \E i \in scanned :
                            /\ ~Falsy(ma_50_past(i))
                            /\ ~Falsy(ma_200_past(i))
                            /\ ma_50_past(i) >= ma_200_past(i),
              ma_50 |-> ma_50_current, ma_200 |-> ma_200_current]

\* detect_death_cross(prices, lookback_days): (detected, ma_50, ma_200)
detect_death_cross(prices, lookback_days) ==
    LET ma_50_current == calculate_sma(prices, ShortPeriod)
        ma_200_current == calculate_sma(prices, LongPeriod)
        \* range(1, min(lookback_days + 1, len(prices) - 200))
        scanned == 1..(Min(lookback_days + 1, Len(prices) - LongPeriod) - 1)
        ma_50_past(i) == calculate_sma(DropLast(prices, i), ShortPeriod)
        ma_200_past(i) == calculate_sma(DropLast(prices, i), LongPeriod)
    IN  IF Len(prices) < LongPeriod
            THEN [detected |-> FALSE, ma_50 |-> None, ma_200 |-> None]
        ELSE IF Falsy(ma_50_current) \/ Falsy(ma_200_current)
            THEN [detected |-> FALSE, ma_50 |-> ma_50_current,
                  ma_200 |-> ma_200_current]
        ELSE IF ma_50_current >= ma_200_current
            THEN [detected |-> FALSE, ma_50 |-> ma_50_current,
                  ma_200 |-> ma_200_current]
        ELSE [detected |-> \E i \in scanned :
                            /\ ~Falsy(ma_50_past(i))
                            /\ ~Falsy(ma_200_past(i))
                            /\ ma_50_past(i) >= ma_200_past(i),
              ma_50 |-> ma_50_current, ma_200 |-> ma_200_current]

\* np.diff(prices)
Deltas(prices) ==
    [i \in 1..(Len(prices) - 1) |-> prices[i + 1] - prices[i]]

\* np.where(deltas > 0, deltas, 0) and np.where(deltas < 0, -deltas, 0)
Gains(deltas) == [i \in 1..Len(deltas) |-> IF deltas[i] > 0 THEN deltas[i] ELSE 0]
Losses(deltas) == [i \in 1..Len(deltas) |-> IF deltas[i] < 0 THEN -deltas[i] ELSE 0]

\* the value 100 of the RSI scale, in hundredths
Rsi100 == 100 * 100

\* np.mean(x[-period:]) for period > 0: x[-period:] is all of x when x is
\* shorter than period
MeanOfLast(x, period) ==
    LET tail == LastN(x, period) IN SumSeq(tail) \div Len(tail)

\* calculate_rsi that asks for period entries instead of period + 1
calculate_rsi_short(prices, period) ==
    LET deltas == Deltas(prices)
        avg_gain == MeanOfLast(Gains(deltas), period)
        avg_loss == MeanOfLast(Losses(deltas), period)
        rs == Ratio(avg_gain, avg_loss)
    IN  IF Len(prices) < period \/ Len(prices) < 2 THEN None
        ELSE IF avg_loss = 0 THEN Rsi100
        ELSE Rsi100 - ((Rsi100 * RatioScale) \div (RatioScale + rs))

\* calculate_rsi(prices, period), for period > 0; the result is in
\* hundredths
calculate_rsi(prices, period) ==
    LET deltas == Deltas(prices)
        avg_gain == MeanOfLast(Gains(deltas), period)
        avg_loss == MeanOfLast(Losses(deltas), period)
        rs == Ratio(avg_gain, avg_loss)
    IN  IF Len(prices) < period + 1 THEN None
        ELSE IF avg_loss = 0 THEN Rsi100
        ELSE Rsi100 - ((Rsi100 * RatioScale) \div (RatioScale + rs))

\* np.exp(x) in thousandths at the points of np.linspace(-1., 0., period):
\* x = -1 + j / (period - 1), looked up by t = 60 * j / (period - 1)
ExpMilli(j, period) ==
    LET t == IF period = 1 THEN 0 ELSE (60 * j) \div (period - 1)
    IN CASE t = 0 -> 368
         [] t = 12 -> 449
         [] t = 15 -> 472
         [] t = 20 -> 513
         [] t = 24 -> 549
         [] t = 30 -> 607
         [] t = 36 -> 670
         [] t = 40 -> 717
         [] t = 45 -> 779
         [] t = 48 -> 819
         [] t = 60 -> 1000
         [] OTHER -> 368 + ((632 * t * t) \div (60 * 60))

\* weights = np.exp(np.linspace(-1., 0., period)), before normalisation
EmaWeights(period) == [k \in 1..period |-> ExpMilli(k - 1, period)]

\* np.convolve(prices_array, weights, mode='valid')[-1] for unnormalised
\* weights: weights[j] meets prices[n - 1 - j]
ConvolveLast(prices, weights) ==
    SumSeq([k \in 1..Len(weights) |-> prices[Len(prices) + 1 - k] * weights[k]])

\* calculate_ema without `weights /= weights.sum()`
calculate_ema_unnormalised(prices, period) ==
    IF Len(prices) < period THEN None
    ELSE ConvolveLast(prices, EmaWeights(period)) \div 1000

\* calculate_ema(prices, period), for period > 0
calculate_ema(prices, period) ==
    IF Len(prices) < period THEN None
    ELSE ConvolveLast(prices, EmaWeights(period))
            \div SumSeq(EmaWeights(period))

----------------------------------------------------------------------------
(* common/technical_indicators.py: calculate_all_indicators and the flags  *)
(* it derives.  A Python bool is the integer 1 or 0, so that a flag is 1,  *)
(* 0 or None.                                                              *)

RsiPeriod == 2           \* calculate_rsi(prices, 14), scaled

is_oversold(rsi) == IF rsi < 30 * 100 THEN 1 ELSE 0

is_overbought(rsi) == IF rsi > 70 * 100 THEN 1 ELSE 0

is_above_ma(current_price, ma) == IF current_price > ma THEN 1 ELSE 0

\* (current_price - week_52_low) / week_52_low <= 0.05
is_near_52_week_low(current_price, week_52_low) ==
    IF (current_price - week_52_low) * 100 <= 5 * week_52_low THEN 1 ELSE 0

\* the dict calculate_all_indicators returns, from the indicators it has
\* calculated; ma_20 and volatility_30d, which no flag reads, are left out
IndicatorsDict(current_price, rsi, ma_50, ma_200, week_52, crosses) ==
    [raised |-> FALSE,
     rsi |-> rsi,
     current_price |-> current_price,
     ma_50 |-> ma_50,
     ma_200 |-> ma_200,
     week_52_high |-> week_52.week_52_high,
     week_52_low |-> week_52.week_52_low,
     golden_cross |-> crosses.golden_cross,
     death_cross |-> crosses.death_cross,
     is_oversold |-> IF ~Falsy(rsi) THEN is_oversold(rsi) ELSE None,
     is_overbought |-> IF ~Falsy(rsi) THEN is_overbought(rsi) ELSE None,
     above_ma_50 |->
        IF ~Falsy(ma_50) THEN is_above_ma(current_price, ma_50) ELSE None,
     above_ma_200 |->
        IF ~Falsy(ma_200) THEN is_above_ma(current_price, ma_200) ELSE None,
     near_52w_low |->
        IF ~Falsy(week_52.week_52_low)
        THEN is_near_52_week_low(current_price, week_52.week_52_low)
        ELSE None]

\* calculate_all_indicators(prices, current_price); max() of an empty
\* series raises
calculate_all_indicators(prices, current_price) ==
    IF prices = <<>> THEN [raised |-> TRUE]
    ELSE IndicatorsDict(current_price,
            calculate_rsi(prices, RsiPeriod),
            calculate_sma(prices, ShortPeriod),
            calculate_sma(prices, LongPeriod),
            calculate_52_week_high_low(prices),
            [golden_cross |-> detect_golden_cross(prices, 5).detected,
             death_cross |-> detect_death_cross(prices, 5).detected])

----------------------------------------------------------------------------
(* screener_phase1.py                                                      *)

\* history = db.get_stock_history(db, ticker, days); the rows with a truthy
\* price, oldest first
PriceHistoryRows(db, ticker, days) ==
    LET history == get_stock_history(db, ticker, days)
        n == Len(history)
        reversed == [i \in 1..n |-> history[n + 1 - i]]
    IN SelectSeq(reversed, LAMBDA h : ~Falsy(h.price_eur))

get_price_history(db, ticker, days) ==
    LET rows == PriceHistoryRows(db, ticker, days)
    IN [i \in 1..Len(rows) |-> rows[i].price_eur]

\* the candidates of screen_52_week_low: the SELECT of lines 41-56
Week52LowCandidates(db, cfg) ==
    LET thresholds == cfg.week_52_low
    IN SelectSeq(LatestRows(db), LAMBDA r :
            /\ r.market_cap_eur >= thresholds.min_market_cap_eur
            /\ r.pe_ratio > 0
            /\ r.pe_ratio <= thresholds.max_pe_ratio
            /\ r.dividend_yield >= thresholds.min_dividend_yield)

\* One iteration of the loop of screen_52_week_low.
Week52LowStep(db, cfg, acc, stock) ==
    LET thresholds == cfg.week_52_low
        ticker == stock.ticker
        current_price == stock.price_eur
        rows == PriceHistoryRows(db, ticker, PriceHistoryDays)
        prices == get_price_history(db, ticker, PriceHistoryDays)
        acc1 == Handed(acc, stock, rows)
        week_52 == calculate_52_week_high_low(prices)
        distance_from_low ==
            Ratio(current_price - week_52.week_52_low, week_52.week_52_low)
        recent_alerts ==
            get_recent_alerts(db, ticker, cfg.alerts.duplicate_alert_days)
    IN  IF Falsy(current_price) THEN acc
        ELSE IF Len(prices) < Min52WeekPrices THEN acc1
        ELSE IF Falsy(week_52.week_52_low) THEN acc1
        ELSE IF /\ distance_from_low <= thresholds.max_distance_from_low_pct
                /\ ~\E a \in recent_alerts : a.strategy = "52_week_low"
            THEN [acc1 EXCEPT !.opps = Append(@,
                    [ticker |-> ticker,
                     price_eur |-> current_price,
                     week_52_low |-> week_52.week_52_low,
                     week_52_high |-> week_52.week_52_high,
                     distance_from_low_pct |-> distance_from_low,
                     dividend_yield |-> NormalizeYield(stock.dividend_yield),
                     pe_ratio |-> stock.pe_ratio,
                     market_cap_eur |-> stock.market_cap_eur])]
        ELSE acc1

RECURSIVE Week52LowScan(_, _, _, _, _)
Week52LowScan(db, cfg, cands, i, acc) ==
    IF i > Len(cands) \/ acc.raised THEN acc
    ELSE Week52LowScan(db, cfg, cands, i + 1, Week52LowStep(db, cfg, acc, cands[i]))

screen_52_week_low(db, cfg) ==
    LET scan == Week52LowScan(db, cfg, Week52LowCandidates(db, cfg), 1,
                              EmptyScan)
    IN [scan EXCEPT !.opps = StableSortAsc(@,
            [i \in 1..Len(@) |-> @[i].distance_from_low_pct])]

\* the candidates of screen_golden_cross: the SELECT of lines 142-150
GoldenCrossCandidates(db, cfg) ==
    SelectSeq(LatestRows(db), LAMBDA r :
        r.market_cap_eur >= cfg.golden_cross.min_market_cap_eur)

\* One iteration of the loop of screen_golden_cross.
GoldenCrossStep(db, cfg, acc, stock) ==
    LET thresholds == cfg.golden_cross
        ticker == stock.ticker
        current_price == stock.price_eur
        rows == PriceHistoryRows(db, ticker, PriceHistoryDays)
        prices == get_price_history(db, ticker, PriceHistoryDays)
        acc1 == Handed(acc, stock, rows)
        cross == detect_golden_cross(prices, thresholds.lookback_days)
        dividend_yield == NormalizeYield(stock.dividend_yield)
        recent_alerts ==
            get_recent_alerts(db, ticker, cfg.alerts.duplicate_alert_days)
    IN  IF Falsy(current_price) THEN acc
        ELSE IF stock.pe_ratio > 0 /\ stock.pe_ratio > thresholds.max_pe_ratio
            THEN acc
        ELSE IF Len(prices) < LongPeriod THEN acc1
        ELSE IF thresholds.lookback_days = Missing
            THEN [acc1 EXCEPT !.raised = TRUE]  \* thresholds['lookback_days']
        ELSE IF ~cross.detected THEN acc1
        ELSE IF /\ thresholds.min_dividend_yield > 0
                /\ dividend_yield < thresholds.min_dividend_yield
            THEN acc1
        ELSE IF ~\E a \in recent_alerts : a.strategy = "golden_cross"
            THEN [acc1 EXCEPT !.opps = Append(@,
                    [ticker |-> ticker,
                     price_eur |-> current_price,
                     ma_50 |-> cross.ma_50,
                     ma_200 |-> cross.ma_200,
                     dividend_yield |-> dividend_yield,
                     pe_ratio |-> stock.pe_ratio,
                     market_cap_eur |-> stock.market_cap_eur])]
        ELSE acc1

RECURSIVE GoldenCrossScan(_, _, _, _, _)
GoldenCrossScan(db, cfg, cands, i, acc) ==
    IF i > Len(cands) \/ acc.raised THEN acc
    ELSE GoldenCrossScan(db, cfg, cands, i + 1, GoldenCrossStep(db, cfg, acc, cands[i]))

screen_golden_cross(db, cfg) ==
    IF ~cfg.golden_cross.enabled THEN EmptyScan
    ELSE GoldenCrossScan(db, cfg, GoldenCrossCandidates(db, cfg), 1, EmptyScan)

----------------------------------------------------------------------------
(* The stores a behaviour starts from: what fetch_data.py and              *)
(* fetch_data_historical.py have written with add_stock and                *)
(* add_stock_data.  Each ticker has one set of fundamentals (the           *)
(* historical fetch writes the same fundamentals on every date) and one    *)
(* price series over the date grid.                                        *)

PriceHigh == 60 * 100    \* a price, in cents
PriceLow == 48 * 100     \* a lower price, in cents
PriceNear == 83 * 60      \* a price within 5% above PriceLow, in cents

Fundamentals ==
    { \* a dividend payer, yield stored as a fraction (0.04)
      [market_cap_eur |-> 500, dividend_yield |-> 400, pe_ratio |-> 10,
       beta |-> 80, volatility |-> 20, sector |-> "Utilities"],
      \* a volatile dividend payer, yield stored in percent (3.5)
      [market_cap_eur |-> 500, dividend_yield |-> 35000, pe_ratio |-> 10,
       beta |-> 150, volatility |-> 50, sector |-> "Technology"],
      \* market capitalisation exactly the dividend strategy's floor
      [market_cap_eur |-> 100, dividend_yield |-> 400, pe_ratio |-> 10,
       beta |-> 150, volatility |-> 50, sector |-> "Energy"],
      \* below the dividend floor, above the volatility floor; no P/E
      [market_cap_eur |-> 80, dividend_yield |-> 0, pe_ratio |-> 0,
       beta |-> 150, volatility |-> 50, sector |-> "Technology"] }

Shapes == {"flat", "dip", "rise", "dip2", "recover", "lastNull", "short",
           "noLast", "gap"}

\* further series: rows without any price, a single row, a close slightly
\* above the low of the day before, and a low older than the 52-week range
MoreShapes == {"unpriced", "fresh", "bounce", "oldLow"}

\* the price of a series on the i-th date of the grid
SeriesPrice(shape, i) ==
    LET n == NumDates
    IN CASE shape = "flat" -> PriceHigh
         [] shape = "dip" -> IF i = n THEN PriceLow ELSE PriceHigh
         [] shape = "rise" -> IF i = n THEN PriceHigh ELSE PriceLow
         [] shape = "dip2" -> IF i >= n - 1 THEN PriceLow ELSE PriceHigh
         [] shape = "recover" -> IF i = n - 1 THEN PriceLow ELSE PriceHigh
         [] shape = "lastNull" -> IF i = n THEN None
                                  ELSE IF i = n - 1 THEN PriceLow
                                  ELSE PriceHigh
         [] shape = "short" -> IF i < n - 1 THEN Absent
                               ELSE IF i = n - 1 THEN PriceHigh
                               ELSE PriceLow
         [] shape = "noLast" -> IF i = n THEN Absent
                                ELSE IF i = n - 1 THEN PriceLow
                                ELSE PriceHigh
         [] shape = "gap" -> IF i = n - 1 THEN Absent
                             ELSE IF i = n THEN PriceLow
                             ELSE PriceHigh
         [] shape = "unpriced" -> None
         [] shape = "fresh" -> IF i = n THEN PriceLow ELSE Absent
         [] shape = "bounce" -> IF i = n THEN PriceNear
                                ELSE IF i = n - 1 THEN PriceLow
                                ELSE PriceHigh
         [] shape = "oldLow" -> IF i = 1 THEN PriceLow ELSE PriceHigh

\* add_stock_data: the row written for (ticker, date)
StoredRow(f, price) ==
    IF price = Absent THEN NoRow
    ELSE [price_eur |-> price,
          year_high_eur |-> PriceHigh,
          market_cap_eur |-> f.market_cap_eur,
          dividend_yield |-> f.dividend_yield,
          pe_ratio |-> f.pe_ratio,
          beta |-> f.beta,
          volatility |-> f.volatility,
          sector |-> f.sector]

StoresOf(shapes) ==
    { [t \in Tickers |->
          [d \in Dates |-> StoredRow(f[t], SeriesPrice(sh[t], d \div DateStep))]] :
      f \in [Tickers -> Fundamentals], sh \in [Tickers -> shapes] }

\* the series a live run distinguishes: its evaluation date is the date
\* of the ticker's latest row
LiveShapes == {"flat", "dip", "rise", "lastNull", "noLast"}

TzOffsets == {-1, 0, 1}

----------------------------------------------------------------------------
(* The live screening runs.                                                *)

DB == [stock_data |-> stock_data, alerts |-> alerts]

NoBacktest == [status |-> "none"]

NoCalc == [op |-> "none"]

\* no run of the screens is under way
NoRun == [done |-> {}, alerts0 |-> {}]

\* no email has gone out and process_and_send_alerts has not been called
NoMail ==
    [emailed |-> {}, outcome |-> "none", sent_now |-> {}, lookback_days |-> 0,
     new |-> [s \in Strategies |-> 0]]

Returned(scan) ==
    [raised |-> scan.raised, list |-> IF scan.raised THEN <<>> ELSE scan.opps]

NotRun == [raised |-> FALSE, list |-> <<>>]

\* A screen is one call: the lists of earlier calls are not kept.
OnlyResult(strategy, scan) ==
    [s \in Strategies |-> IF s = strategy THEN Returned(scan) ELSE NotRun]

Init ==
    /\ stock_data \in StoresOf(LiveShapes)
    /\ alerts = {}
    /\ now = Today0
    /\ tz \in TzOffsets
    /\ opps = [s \in Strategies |-> NotRun]
    /\ trailing = {}
    /\ lastOp = "init"
    /\ bt = NoBacktest
    /\ calc = NoCalc
    /\ ran = NoRun
    /\ mail = NoMail

ScreenDividend ==
    LET scan == screen_dividend_opportunities(DB, config)
    IN  /\ opps' = OnlyResult("dividend", scan)
        /\ trailing' = scan.trail
        /\ lastOp' = "dividend"
        /\ UNCHANGED <<calc, ran, mail, stock_data, alerts, now, tz, bt>>

ScreenVolatility ==
    LET scan == screen_volatility_opportunities(DB, config)
    IN  /\ opps' = OnlyResult("volatility", scan)
        /\ trailing' = scan.trail
        /\ lastOp' = "volatility"
        /\ UNCHANGED <<calc, ran, mail, stock_data, alerts, now, tz, bt>>

Screen52WeekLow ==
    LET scan == screen_52_week_low(DB, config)
    IN  /\ opps' = OnlyResult("52_week_low", scan)
        /\ trailing' = scan.trail
        /\ lastOp' = "52_week_low"
        /\ UNCHANGED <<calc, ran, mail, stock_data, alerts, now, tz, bt>>

ScreenGoldenCross ==
    LET scan == screen_golden_cross(DB, config)
    IN  /\ opps' = OnlyResult("golden_cross", scan)
        /\ trailing' = scan.trail
        /\ lastOp' = "golden_cross"
        /\ UNCHANGED <<calc, ran, mail, stock_data, alerts, now, tz, bt>>

\* main: `if dividend_opps: record_alerts(db, dividend_opps, 'dividend')`
RecordAlerts(strategy) ==
    /\ ~opps[strategy].raised
    /\ opps[strategy].list # <<>>
    /\ alerts' = record_alerts(DB, opps[strategy].list, strategy).alerts
    /\ Cardinality(alerts') <= MaxAlerts
    /\ lastOp' = "record_alerts"
    /\ UNCHANGED <<calc, ran, mail, stock_data, now, tz, opps, trailing, bt>>

\* A day passes: the run's process has ended and its lists are gone.
Tick ==
    /\ now < Today0 + MaxTicks
    /\ now' = now + 1
    /\ opps' = [s \in Strategies |-> NotRun]
    /\ trailing' = {}
    /\ lastOp' = "tick"
    /\ UNCHANGED <<calc, ran, mail, stock_data, alerts, tz, bt>>

Next ==
    \/ ScreenDividend
    \/ ScreenVolatility
    \/ Screen52WeekLow
    \/ ScreenGoldenCross
    \/ \E s \in Strategies : RecordAlerts(s)
    \/ Tick

Spec == Init /\ [][Next]_vars

----------------------------------------------------------------------------
(* backtest.py                                                             *)

\* StocksOnDate without the tickers that have an alert on record
StocksOnDateUnalerted(db, target_date, min_cap) ==
    LET ts == SelectSeq(TickerOrder, LAMBDA t :
                /\ target_date \in Dates
                /\ HasRow(db, t, target_date)
                /\ db.stock_data[t][target_date].market_cap_eur > min_cap
                /\ ~\E a \in db.alerts : a.ticker = t)
    IN [i \in 1..Len(ts) |-> StockRow(db, ts[i], target_date)]

\* WHERE sd.date = ? AND sd.market_cap_eur > ?
StocksOnDate(db, target_date, min_cap) ==
    LET ts == SelectSeq(TickerOrder, LAMBDA t :
                /\ target_date \in Dates
                /\ HasRow(db, t, target_date)
                /\ db.stock_data[t][target_date].market_cap_eur > min_cap)
    IN [i \in 1..Len(ts) |-> StockRow(db, ts[i], target_date)]

\* WHERE ticker = ? AND date < ? AND date >= date(?, '-90 days')
\* ORDER BY date DESC
HistoryBefore(db, ticker, target_date) ==
    LET ds == SeqDesc({d \in RowDates(db, ticker) :
                d < target_date /\ d >= target_date - BacktestWindowDays})
    IN [i \in 1..Len(ds) |-> StockRow(db, ticker, ds[i])]

\* One iteration of the dividend loop of screen_on_date.
BacktestDividendStep(db, cfg, target_date, out, stock) ==
    LET thresholds_div == cfg.dividend
        current_yield == NormalizeYield(stock.dividend_yield)
        current_price == stock.price_eur
        history == HistoryBefore(db, stock.ticker, target_date)
        prices == TruthyPrices(history)
        price_90d_avg == SumSeq(prices) \div Len(prices)
        dividend_per_share == current_yield * current_price
        historical_yield ==
            IF price_90d_avg > 0 THEN dividend_per_share \div price_90d_avg
            ELSE 0
        yield_expansion == current_yield - historical_yield
        price_discount == Ratio(price_90d_avg - current_price, price_90d_avg)
    IN  IF current_yield < thresholds_div.min_current_yield THEN out
        ELSE IF Falsy(current_price) \/ current_price <= 0 THEN out
        ELSE IF Len(history) < MinHistoryRows THEN out
        ELSE IF prices = <<>> THEN out
        ELSE IF /\ yield_expansion >= thresholds_div.min_yield_expansion_pp
                /\ price_discount >=
                        thresholds_div.min_price_discount_vs_90d_avg
                /\ stock.pe_ratio > 0
                /\ stock.pe_ratio <= thresholds_div.max_pe_ratio
            THEN Append(out,
                    [ticker |-> stock.ticker,
                     entry_date |-> target_date,
                     entry_price |-> current_price,
                     yield_expansion |-> yield_expansion,
                     price_discount |-> price_discount,
                     pe_ratio |-> stock.pe_ratio])
        ELSE out

\* One iteration of the volatility loop of screen_on_date.
BacktestVolatilityStep(db, cfg, target_date, out, stock) ==
    LET thresholds_vol == cfg.volatility
        history == HistoryBefore(db, stock.ticker, target_date)
        \* SELECT MAX(price_eur): NULL when no row carries a price
        known == {history[i].price_eur : i \in 1..Len(history)} \ {None}
        high_90d == IF known = {} THEN None ELSE MaxOf(known)
        drop_from_high == Ratio(stock.price_eur - high_90d, high_90d)
    IN  IF stock.market_cap_eur < thresholds_vol.min_market_cap_eur THEN out
        ELSE IF ~(\/ stock.beta >= thresholds_vol.min_beta
                  \/ stock.volatility >= thresholds_vol.min_volatility)
            THEN out
        ELSE IF Falsy(high_90d) \/ Falsy(stock.price_eur) THEN out
        ELSE IF drop_from_high <= -thresholds_vol.min_drop_from_high
            THEN IF /\ stock.pe_ratio > 0
                    /\ stock.pe_ratio > thresholds_vol.max_pe_ratio
                 THEN out
                 ELSE Append(out,
                        [ticker |-> stock.ticker,
                         entry_date |-> target_date,
                         entry_price |-> stock.price_eur,
                         drop_from_high |-> drop_from_high,
                         beta |-> stock.beta,
                         pe_ratio |-> stock.pe_ratio])
        ELSE out

RECURSIVE BacktestDividendScan(_, _, _, _, _, _)
BacktestDividendScan(db, cfg, target_date, stocks, i, out) ==
    IF i > Len(stocks) THEN out
    ELSE BacktestDividendScan(db, cfg, target_date, stocks, i + 1,
            BacktestDividendStep(db, cfg, target_date, out, stocks[i]))

RECURSIVE BacktestVolatilityScan(_, _, _, _, _, _)
BacktestVolatilityScan(db, cfg, target_date, stocks, i, out) ==
    IF i > Len(stocks) THEN out
    ELSE BacktestVolatilityScan(db, cfg, target_date, stocks, i + 1,
            BacktestVolatilityStep(db, cfg, target_date, out, stocks[i]))

\* screen_on_date(db, config, target_date): (dividend_opps, volatility_opps)
screen_on_date(db, cfg, target_date) ==
    LET stocks == StocksOnDate(db, target_date, cfg.dividend.min_market_cap_eur)
    IN [dividend_opps |->
            BacktestDividendScan(db, cfg, target_date, stocks, 1, <<>>),
        volatility_opps |->
            BacktestVolatilityScan(db, cfg, target_date, stocks, 1, <<>>)]

\* ExitRows with ORDER BY date ASC: the earliest row instead of the latest
ExitRowsEarliest(db, ticker, exit_date) ==
    LET ds == {d \in RowDates(db, ticker) : d <= exit_date}
    IN IF ds = {} THEN {} ELSE {StockRow(db, ticker, MinOf(ds))}

\* SELECT price_eur ... WHERE ticker = ? AND date <= ? ORDER BY date DESC
\* LIMIT 1: the rows fetchone() can return (none, or the latest one)
ExitRows(db, ticker, exit_date) ==
    LET ds == {d \in RowDates(db, ticker) : d <= exit_date}
    IN IF ds = {} THEN {} ELSE {StockRow(db, ticker, MaxOf(ds))}

\* One iteration of the loop of calculate_returns.
ReturnsStep(db, exit_date, results, opp) ==
    LET result == ExitRows(db, opp.ticker, exit_date)
        exit_price == (CHOOSE r \in result : TRUE).price_eur
        entry_price == opp.entry_price
        returns_pct == Ratio(exit_price - entry_price, entry_price) * 100
    IN  IF result = {} THEN results
        ELSE IF Falsy(exit_price) THEN results
        ELSE Append(results,
                [ticker |-> opp.ticker,
                 entry_date |-> opp.entry_date,
                 entry_price |-> entry_price,
                 exit_date |-> exit_date,
                 exit_price |-> exit_price,
                 return_pct |-> returns_pct])

RECURSIVE ReturnsScan(_, _, _, _, _)
ReturnsScan(db, exit_date, opportunities, i, results) ==
    IF i > Len(opportunities) THEN results
    ELSE ReturnsScan(db, exit_date, opportunities, i + 1,
            ReturnsStep(db, exit_date, results, opportunities[i]))

calculate_returns(db, opportunities, exit_date) ==
    ReturnsScan(db, exit_date, opportunities, 1, <<>>)

\* sorted(r['return_pct'] for r in results)[len(results)//2]
median_return(results) ==
    LET returns == [i \in 1..Len(results) |-> results[i].return_pct]
        sorted == StableSortAsc(returns, returns)
    IN sorted[(Len(results) \div 2) + 1]

\* the figures run_backtest reports for one strategy (lines 303-312)
StrategyReport(results) ==
    LET returns == [i \in 1..Len(results) |-> results[i].return_pct]
        values == {returns[i] : i \in 1..Len(returns)}
    IN IF results = <<>> THEN [total |-> 0]
       ELSE [total |-> Len(results),
             winning |-> Cardinality({i \in 1..Len(results) : returns[i] > 0}),
             losing |-> Cardinality({i \in 1..Len(results) : returns[i] <= 0}),
             avg_return |-> SumSeq(returns) \div Len(results),
             median_return |-> median_return(results),
             best |-> MaxOf(values),
             worst |-> MinOf(values)]

\* SELECT date, COUNT(DISTINCT ticker) ... WHERE date >= ? GROUP BY date
\* HAVING num_stocks > 500 ORDER BY date ASC LIMIT 1
EntryDates(db, target_entry) ==
    LET ds == {d \in Dates :
                /\ d >= target_entry
                /\ Cardinality({t \in Tickers : HasRow(db, t, d)}) > MinBreadth}
    IN IF ds = {} THEN {} ELSE {MinOf(ds)}

\* the exit query without its WHERE clause: the latest date of the table
ExitDatesLatest(db, exit_date) ==
    LET ds == {d \in Dates : \E t \in Tickers : HasRow(db, t, d)}
    IN IF ds = {} THEN {} ELSE {MaxOf(ds)}

\* SELECT date ... WHERE date <= ? GROUP BY date ORDER BY date DESC LIMIT 1
ExitDates(db, exit_date) ==
    LET ds == {d \in Dates : d <= exit_date /\ \E t \in Tickers : HasRow(db, t, d)}
    IN IF ds = {} THEN {} ELSE {MaxOf(ds)}

\* run_backtest(months_back, holding_period_days): what it prints and saves
run_backtest(db, cfg, months_back, holding_period_days) ==
    LET target_entry == (now + tz) - months_back * DaysPerMonth
        result == EntryDates(db, target_entry)
        entry_date == CHOOSE d \in result : TRUE
        exit_target == entry_date + holding_period_days
        snapped == ExitDates(db, exit_target)
        exit_date == IF snapped # {} THEN CHOOSE d \in snapped : TRUE
                     ELSE exit_target
        screened == screen_on_date(db, cfg, entry_date)
        dividend_results ==
            calculate_returns(db, screened.dividend_opps, exit_date)
        volatility_results ==
            calculate_returns(db, screened.volatility_opps, exit_date)
        params == [months_back |-> months_back,
                   holding_period_days |-> holding_period_days,
                   target_entry |-> target_entry]
    IN  IF result = {}
            THEN [status |-> "no_trading_day", params |-> params]
        ELSE IF screened.dividend_opps = <<>> /\ screened.volatility_opps = <<>>
            THEN [status |-> "no_opportunities", params |-> params,
                  entry_date |-> entry_date, exit_date |-> exit_date,
                  dividend_opps |-> <<>>, volatility_opps |-> <<>>]
        ELSE [status |-> "reported", params |-> params,
              entry_date |-> entry_date, exit_date |-> exit_date,
              dividend_opps |-> screened.dividend_opps,
              volatility_opps |-> screened.volatility_opps,
              dividend_results |-> dividend_results,
              volatility_results |-> volatility_results,
              dividend_report |-> StrategyReport(dividend_results),
              volatility_report |-> StrategyReport(volatility_results)]

----------------------------------------------------------------------------
(* The backtest runs.                                                      *)

MaxMonthsBack == 2       \* months_back is drawn from 0..MaxMonthsBack
MaxHoldingSteps == 2     \* the holding period, in steps of the date grid

HoldingPeriods == {k * DateStep : k \in 0..MaxHoldingSteps}

\* the exit dates calculate_returns is called with: the grid, and a date
\* before every row
ExitChoices == Dates \cup {0}

InitBacktest ==
    /\ stock_data \in StoresOf(Shapes)
    /\ alerts = {}
    /\ now = Today0
    /\ tz = 0
    /\ opps = [s \in Strategies |-> NotRun]
    /\ trailing = {}
    /\ lastOp = "init"
    /\ bt = NoBacktest
    /\ calc = NoCalc
    /\ ran = NoRun
    /\ mail = NoMail

ScreenOnDate ==
    \E target_date \in Dates :
        LET screened == screen_on_date(DB, config, target_date)
        IN  /\ bt.status = "none"
            /\ bt' = [status |-> "screened",
                      entry_date |-> target_date,
                      dividend_opps |-> screened.dividend_opps,
                      volatility_opps |-> screened.volatility_opps]
            /\ lastOp' = "screen_on_date"
            /\ UNCHANGED <<calc, ran, mail, stock_data, alerts, now, tz, opps, trailing>>

CalculateReturns ==
    \E exit_date \in ExitChoices :
        /\ bt.status = "screened"
        /\ bt' = [status |-> "returns",
                  entry_date |-> bt.entry_date,
                  exit_date |-> exit_date,
                  dividend_opps |-> bt.dividend_opps,
                  volatility_opps |-> bt.volatility_opps,
                  dividend_results |->
                        calculate_returns(DB, bt.dividend_opps, exit_date),
                  volatility_results |->
                        calculate_returns(DB, bt.volatility_opps, exit_date)]
        /\ lastOp' = "calculate_returns"
        /\ UNCHANGED <<calc, ran, mail, stock_data, alerts, now, tz, opps, trailing>>

RunBacktest ==
    \E months_back \in 0..MaxMonthsBack, holding_period_days \in HoldingPeriods :
        /\ bt.status = "none"
        /\ bt' = run_backtest(DB, config, months_back, holding_period_days)
        /\ lastOp' = "run_backtest"
        /\ UNCHANGED <<calc, ran, mail, stock_data, alerts, now, tz, opps, trailing>>

NextBacktest == ScreenOnDate \/ CalculateReturns \/ RunBacktest

SpecBacktest == InitBacktest /\ [][NextBacktest]_vars

----------------------------------------------------------------------------
(* One call of one screen, live or of the backtest, on a wider family of   *)
(* stores, with at most one alert on record, and for the golden-cross      *)
(* screen also with other values of golden_cross.lookback_days in the      *)
(* configuration.                                                          *)

ScreenShapes == LiveShapes \cup MoreShapes

\* the alerts table: empty, or one alert of today for ticker "A"
ScreenAlerts ==
    {{}} \cup {{[ticker |-> "A", strategy |-> s, alert_date |-> Today0]} :
                    s \in Strategies}

\* golden_cross.lookback_days as the file may give it: absent, negative,
\* zero, positive
ConfiguredLookbacks == {Missing} \cup ((-1)..1)

WithLookback(lookback_days) ==
    [config EXCEPT !.golden_cross.lookback_days = lookback_days]

InitScreens ==
    /\ stock_data \in StoresOf(ScreenShapes)
    /\ alerts \in ScreenAlerts
    /\ now = Today0
    /\ tz = 0
    /\ opps = [s \in Strategies |-> NotRun]
    /\ trailing = {}
    /\ lastOp = "init"
    /\ bt = NoBacktest
    /\ calc = NoCalc
    /\ ran = NoRun
    /\ mail = NoMail

ScreenGoldenCrossConfigured ==
    \E lookback_days \in ConfiguredLookbacks :
        LET scan == screen_golden_cross(DB, WithLookback(lookback_days))
        IN  /\ opps' = OnlyResult("golden_cross", scan)
            /\ trailing' = scan.trail
            /\ lastOp' = "golden_cross_configured"
            /\ calc' = [op |-> "config", lookback_days |-> lookback_days]
            /\ UNCHANGED <<ran, mail, stock_data, alerts, now, tz, bt>>

\* the process runs one screen, and after the backtest's screen its
\* calculate_returns, and ends
NextScreens ==
    \/ (lastOp = "init" /\ ScreenDividend)
    \/ (lastOp = "init" /\ ScreenVolatility)
    \/ (lastOp = "init" /\ Screen52WeekLow)
    \/ (lastOp = "init" /\ ScreenGoldenCross)
    \/ (lastOp = "init" /\ ScreenGoldenCrossConfigured)
    \/ (lastOp = "init" /\ ScreenOnDate)
    \/ (lastOp = "screen_on_date" /\ CalculateReturns)

SpecScreens == InitScreens /\ [][NextScreens]_vars

----------------------------------------------------------------------------
(* The indicator functions of common/technical_indicators.py, each called  *)
(* on a price series (oldest first) and one integer argument: the period   *)
(* of calculate_rsi, calculate_sma and calculate_ema, the lookback_days of *)
(* the cross detectors.                                                    *)

MaxSeries == 6      \* longest price series an indicator is called on
MaxArg == 4         \* largest period or lookback_days

PriceMid == 54 * 100     \* a price between PriceLow and PriceHigh, in cents

\* every mean of up to five of these prices is a whole number of cents
IndicatorPrices == {PriceLow, PriceMid, PriceHigh}

RECURSIVE SeriesOfLen(_)
SeriesOfLen(n) ==
    IF n = 0 THEN {<<>>}
    ELSE {Append(q, x) : q \in SeriesOfLen(n - 1), x \in IndicatorPrices}

PriceSeries == UNION {SeriesOfLen(n) : n \in 0..MaxSeries}

\* lookback_days comes from the configuration: it may be negative
IndicatorArgs == (-1)..MaxArg

InitIndicators ==
    /\ stock_data = [t \in Tickers |-> [d \in Dates |-> NoRow]]
    /\ alerts = {}
    /\ now = Today0
    /\ tz = 0
    /\ opps = [s \in Strategies |-> NotRun]
    /\ trailing = {}
    /\ lastOp = "init"
    /\ bt = NoBacktest
    /\ calc \in [op : {"input"}, prices : PriceSeries, arg : IndicatorArgs]
    /\ ran = NoRun
    /\ mail = NoMail

Called(op, result) ==
    [op |-> op, prices |-> calc.prices, arg |-> calc.arg, result |-> result]

CalculateRsi ==
    /\ calc.op = "input"
    /\ calc.arg >= 1
    /\ calc' = Called("calculate_rsi", calculate_rsi(calc.prices, calc.arg))
    /\ UNCHANGED <<ran, mail, stock_data, alerts, now, tz, opps, trailing,
                   lastOp, bt>>

CalculateSma ==
    /\ calc.op = "input"
    /\ calc.arg >= 1
    /\ calc' = Called("calculate_sma", calculate_sma(calc.prices, calc.arg))
    /\ UNCHANGED <<ran, mail, stock_data, alerts, now, tz, opps, trailing,
                   lastOp, bt>>

CalculateEma ==
    /\ calc.op = "input"
    /\ calc.arg >= 1
    /\ calc' = Called("calculate_ema", calculate_ema(calc.prices, calc.arg))
    /\ UNCHANGED <<ran, mail, stock_data, alerts, now, tz, opps, trailing,
                   lastOp, bt>>

DetectGoldenCross ==
    /\ calc.op = "input"
    /\ calc' = Called("detect_golden_cross",
                      detect_golden_cross(calc.prices, calc.arg))
    /\ UNCHANGED <<ran, mail, stock_data, alerts, now, tz, opps, trailing,
                   lastOp, bt>>

DetectDeathCross ==
    /\ calc.op = "input"
    /\ calc' = Called("detect_death_cross",
                      detect_death_cross(calc.prices, calc.arg))
    /\ UNCHANGED <<ran, mail, stock_data, alerts, now, tz, opps, trailing,
                   lastOp, bt>>

\* current_price is the last item of prices
CalculateAllIndicators ==
    /\ calc.op = "input"
    /\ calc' = Called("calculate_all_indicators",
                      calculate_all_indicators(calc.prices,
                        IF calc.prices = <<>> THEN 0
                        ELSE calc.prices[Len(calc.prices)]))
    /\ UNCHANGED <<ran, mail, stock_data, alerts, now, tz, opps, trailing,
                   lastOp, bt>>

NextIndicators ==
    \/ CalculateAllIndicators
    \/ CalculateRsi
    \/ CalculateSma
    \/ CalculateEma
    \/ DetectGoldenCross
    \/ DetectDeathCross

SpecIndicators == InitIndicators /\ [][NextIndicators]_vars

----------------------------------------------------------------------------
(* Properties.                                                             *)

TickersOf(list) == {list[i].ticker : i \in 1..Len(list)}
Elems(list) == {list[i] : i \in 1..Len(list)}

\* the screen of one strategy, as a function of the store
ScreenOf(strategy, db) ==
    CASE strategy = "dividend" -> screen_dividend_opportunities(db, config)
      [] strategy = "volatility" -> screen_volatility_opportunities(db, config)
      [] strategy = "52_week_low" -> screen_52_week_low(db, config)
      [] strategy = "golden_cross" -> screen_golden_cross(db, config)

\* the store with an empty alerts table: what a screen emits from it is
\* what qualifies apart from deduplication
NoAlertsDB == [stock_data |-> stock_data, alerts |-> {}]

\* the alerts of the pair (ticker, strategy) inside the duplicate window
PairAlerts(ticker, strategy) ==
    {a \in get_recent_alerts(DB, ticker, config.alerts.duplicate_alert_days) :
        a.strategy = strategy}

\* C1: in every screen, a ticker that qualifies apart from deduplication is
\* missing from the screen's list exactly when an alert of the same
\* (ticker, strategy) pair lies inside the duplicate window; alerts of other
\* strategies and alerts older than the window do not suppress it.
C1_DedupKeyedOnPair ==
    \A s \in Strategies :
        (lastOp = s /\ ~opps[s].raised) =>
            LET free == ScreenOf(s, NoAlertsDB)
            IN \A t \in TickersOf(free.opps) :
                    (t \notin TickersOf(opps[s].list)) <=> (PairAlerts(t, s) # {})

\* C2: when a screen's list has been recorded as alerts and the same screen
\* runs again on the same date, no ticker of the recorded list is in the
\* new list.
C2_RerunEmitsNoRecordedPair ==
    [][\A s \in Strategies :
        (/\ lastOp = "record_alerts"
         /\ opps[s].list # <<>>
         /\ lastOp' = s)
        => TickersOf(opps'[s].list) \cap TickersOf(opps[s].list) = {}]_vars

\* C2 happens: a screen has just run on the date on which an alert of its
\* own strategy was recorded for a ticker that qualifies apart from
\* deduplication, and its list is without that ticker.
C2_Witness ==
    \E s \in Strategies :
        /\ lastOp = s
        /\ ~opps[s].raised
        /\ \E a \in alerts :
            /\ a.strategy = s
            /\ a.alert_date = now + tz
            /\ a.ticker \in TickersOf(ScreenOf(s, NoAlertsDB).opps)
            /\ a.ticker \notin TickersOf(opps[s].list)

\* C3: the trailing rows a live screen fetches for a ticker are all dated
\* strictly before the ticker's evaluation date.
C3_TrailingBeforeEvaluationDate ==
    \A h \in trailing : \A d \in h.dates : d < h.eval_date

\* the dates at or before the target on which enough tickers have a row
BreadthDatesUpTo(target) ==
    {d \in Dates :
        /\ d <= target
        /\ Cardinality({t \in Tickers : HasRow(DB, t, d)}) > MinBreadth}

\* C4: when some date at or before now - months_back * 30 days has the
\* market breadth, run_backtest enters on the latest such date, which is
\* never later than that target.
C4_EntryDateLatestUpToTarget ==
    (lastOp = "run_backtest" /\ BreadthDatesUpTo(bt.params.target_entry) # {})
        => /\ bt.status # "no_trading_day"
           /\ bt.entry_date <= bt.params.target_entry
           /\ bt.entry_date = MaxOf(BreadthDatesUpTo(bt.params.target_entry))

\* C5: when no date at or before the target has the market breadth,
\* run_backtest reports the data failure, which carries no entry date, no
\* opportunities and no trades.
C5_NoQualifyingDateIsDataFailure ==
    (lastOp = "run_backtest" /\ BreadthDatesUpTo(bt.params.target_entry) = {})
        => bt.status = "no_trading_day"

\* the snapshot of a ticker on a date, as screen_on_date reads it
SnapshotOn(t, d) == StockRow(DB, t, d)

\* C6: on the date screen_on_date evaluates, every ticker with a snapshot
\* and a market capitalisation of at least the strategy's own floor comes
\* under the strategy's rule: when the rule accepts it, it is in the list.
C6_EveryEligibleTickerEvaluated ==
    (lastOp = "screen_on_date") =>
        \A t \in Tickers :
            HasRow(DB, t, bt.entry_date) =>
                LET row == SnapshotOn(t, bt.entry_date)
                IN  /\ (/\ row.market_cap_eur >= config.dividend.min_market_cap_eur
                        /\ BacktestDividendStep(DB, config, bt.entry_date,
                                                <<>>, row) # <<>>)
                        => t \in TickersOf(bt.dividend_opps)
                    /\ (/\ row.market_cap_eur >= config.volatility.min_market_cap_eur
                        /\ BacktestVolatilityStep(DB, config, bt.entry_date,
                                                  <<>>, row) # <<>>)
                        => t \in TickersOf(bt.volatility_opps)

\* the yield threshold of a strategy that has one
YieldFloor(strategy) ==
    CASE strategy = "dividend" -> config.dividend.min_current_yield
      [] strategy = "52_week_low" -> config.week_52_low.min_dividend_yield
      [] strategy = "golden_cross" -> config.golden_cross.min_dividend_yield

\* C7: the yield of every opportunity of a strategy with a yield threshold
\* is the snapshot's yield normalized once, and it is that value which has
\* passed the threshold.
C7_YieldNormalizedBeforeThreshold ==
    \A s \in Strategies \ {"volatility"} :
        lastOp = s =>
            \A o \in Elems(opps[s].list) :
                LET rows == LatestRows(DB)
                    row == CHOOSE r \in Elems(rows) : r.ticker = o.ticker
                IN  /\ o.dividend_yield = NormalizeYield(row.dividend_yield)
                    /\ o.dividend_yield <= YieldOne
                    /\ o.dividend_yield >= YieldFloor(s)

\* the trades a state of the backtest holds, with their strategy's list
BacktestTrades ==
    IF bt.status \in {"returns", "reported"}
    THEN Elems(bt.dividend_results) \cup Elems(bt.volatility_results)
    ELSE {}

\* the dates at or before d on which the ticker has a price
PricedDatesUpTo(t, d) ==
    {x \in RowDates(DB, t) : x <= d /\ ~Falsy(stock_data[t][x].price_eur)}

\* C8: of every trade, the exit price is the ticker's latest available
\* price at or before the exit date, the entry price is the ticker's price
\* on the entry date and is not zero, and the return is
\* (exit_price - entry_price) / entry_price * 100.
C8_TradePricesAndReturn ==
    \A r \in BacktestTrades :
        /\ PricedDatesUpTo(r.ticker, r.exit_date) # {}
        /\ r.exit_price =
            stock_data[r.ticker]
                [MaxOf(PricedDatesUpTo(r.ticker, r.exit_date))].price_eur
        /\ HasRow(DB, r.ticker, r.entry_date)
        /\ r.entry_price = stock_data[r.ticker][r.entry_date].price_eur
        /\ r.entry_price > 0
        /\ r.return_pct =
            (((r.exit_price - r.entry_price) * RatioScale) \div r.entry_price)
                * 100

\* C8 happens: run_backtest has reported a trade that left at a later date
\* and at another price than it entered.
C8_Witness ==
    /\ bt.status = "reported"
    /\ \E r \in BacktestTrades :
        /\ r.exit_date > r.entry_date
        /\ r.exit_price # r.entry_price
        /\ r.return_pct # 0
        /\ \E d \in RowDates(DB, r.ticker) :
            d < r.exit_date /\ stock_data[r.ticker][d].price_eur # r.exit_price

\* the trades of one ticker in a list of results
TradesOf(results, t) == {i \in 1..Len(results) : results[i].ticker = t}

\* C9: calculate_returns yields no trade for an opportunity whose ticker has
\* no available price at or before the exit date, and exactly one trade for
\* every opportunity whose ticker has one.
C9_OneTradePerPricedOpportunity ==
    bt.status \in {"returns", "reported"} =>
        /\ \A o \in Elems(bt.dividend_opps) :
            Cardinality(TradesOf(bt.dividend_results, o.ticker)) =
                IF PricedDatesUpTo(o.ticker, bt.exit_date) = {} THEN 0 ELSE 1
        /\ \A o \in Elems(bt.volatility_opps) :
            Cardinality(TradesOf(bt.volatility_results, o.ticker)) =
                IF PricedDatesUpTo(o.ticker, bt.exit_date) = {} THEN 0 ELSE 1

\* the medians the specification admits for a list of results
AdmittedMedian(results, m) ==
    LET returns == [i \in 1..Len(results) |-> results[i].return_pct]
        sorted == StableSortAsc(returns, returns)
        n == Len(results)
    IN IF n % 2 = 1 THEN m = sorted[(n + 1) \div 2]
       ELSE \/ m = sorted[n \div 2]
            \/ 2 * m = sorted[n \div 2] + sorted[(n \div 2) + 1]

\* C10: the median return reported for a strategy is the middle element of
\* the sorted returns for an odd number of trades, and the lower-middle
\* element or the mean of the two middle elements for an even number.
C10_MedianOfReturns ==
    bt.status = "reported" =>
        /\ bt.dividend_results # <<>> =>
            AdmittedMedian(bt.dividend_results,
                           bt.dividend_report.median_return)
        /\ bt.volatility_results # <<>> =>
            AdmittedMedian(bt.volatility_results,
                           bt.volatility_report.median_return)

\* the values of a sequence
Values(seq) == {seq[i] : i \in 1..Len(seq)}

\* C13: detect_golden_cross and detect_death_cross, called on the same
\* series with the same lookback_days, never both report a cross.
C13_CrossesExclusive ==
    /\ (calc.op = "detect_golden_cross" /\ calc.result.detected)
        => ~detect_death_cross(calc.prices, calc.arg).detected
    /\ (calc.op = "detect_death_cross" /\ calc.result.detected)
        => ~detect_golden_cross(calc.prices, calc.arg).detected

\* C13 happens: detect_golden_cross has reported a cross.
C13_Witness ==
    /\ calc.op = "detect_golden_cross"
    /\ calc.result.detected
    /\ calc.arg >= 1

\* the short average of a series is above its long average
ShortAboveLong(prices) ==
    SumSeq(SubSeq(prices, Len(prices) - ShortPeriod + 1, Len(prices)))
            * LongPeriod
        > SumSeq(SubSeq(prices, Len(prices) - LongPeriod + 1, Len(prices)))
            * ShortPeriod

\* C14: on a series of at least 200 prices whose 50-day average is above
\* its 200-day average, detect_golden_cross reports a cross exactly when for
\* some i in 1..lookback_days the series without its last i prices still has
\* 200 prices and its 50-day average is not above its 200-day average.
C14_GoldenCrossScansEveryWindow ==
    (/\ calc.op = "detect_golden_cross"
     /\ Len(calc.prices) >= LongPeriod
     /\ ShortAboveLong(calc.prices))
    => (calc.result.detected <=>
            \E i \in 1..calc.arg :
                /\ Len(calc.prices) - i >= LongPeriod
                /\ ~ShortAboveLong(SubSeq(calc.prices, 1, Len(calc.prices) - i)))

\* C15: calculate_rsi is None on fewer than period + 1 prices; otherwise it
\* lies in [0, 100], and it is 100 when none of the last `period` price
\* changes is a loss.
C15_RsiBounded ==
    calc.op = "calculate_rsi" =>
        LET n == Len(calc.prices)
            period == calc.arg
        IN IF n < period + 1 THEN calc.result = None
           ELSE /\ calc.result >= 0
                /\ calc.result <= Rsi100
                /\ (\A i \in (n - period)..(n - 1) :
                        calc.prices[i + 1] >= calc.prices[i])
                    => calc.result = Rsi100

\* C15 happens: calculate_rsi has returned 100 for a window of several
\* price changes of which none is a loss and one is a gain.
C15_Witness ==
    /\ calc.op = "calculate_rsi"
    /\ calc.arg >= 2
    /\ Len(calc.prices) > calc.arg + 1
    /\ calc.result = Rsi100
    /\ \E i \in 1..(Len(calc.prices) - 1) : calc.prices[i + 1] > calc.prices[i]

\* the last `period` values of a series that has them
Window(prices, period) ==
    SubSeq(prices, Len(prices) - period + 1, Len(prices))

\* C16: calculate_sma and calculate_ema are None on fewer than `period`
\* prices; otherwise calculate_sma is the arithmetic mean of the last
\* `period` prices, and calculate_ema is an average of the last `period`
\* prices with positive weights: it depends on that window only, lies
\* between its minimum and its maximum, and is c when the window is flat
\* at c.
C16_SmaEmaOverLastPeriod ==
    /\ calc.op = "calculate_sma" =>
        IF Len(calc.prices) < calc.arg THEN calc.result = None
        ELSE calc.result * calc.arg = SumSeq(Window(calc.prices, calc.arg))
    /\ calc.op = "calculate_ema" =>
        IF Len(calc.prices) < calc.arg THEN calc.result = None
        ELSE LET window == Window(calc.prices, calc.arg)
             IN /\ \A k \in 1..calc.arg : EmaWeights(calc.arg)[k] > 0
                /\ calc.result = calculate_ema(window, calc.arg)
                /\ calc.result >= MinOf(Values(window))
                /\ calc.result <= MaxOf(Values(window))

\* C16 happens: calculate_ema has averaged a window of several different
\* prices, shorter than the series, to a value strictly inside its range.
C16_Witness ==
    /\ calc.op = "calculate_ema"
    /\ calc.arg >= 2
    /\ Len(calc.prices) > calc.arg
    /\ calc.result > MinOf(Values(Window(calc.prices, calc.arg)))
    /\ calc.result < MaxOf(Values(Window(calc.prices, calc.arg)))

\* the usable prices among the rows get_stock_history returns for a ticker
UsableTrailing(t) == TruthyPrices(get_stock_history(DB, t, HistoryDays))

\* the store holding the rows of one ticker only
OnlyTicker(t) ==
    [stock_data |-> [u \in Tickers |->
                        IF u = t THEN stock_data[u] ELSE [d \in Dates |-> NoRow]],
     alerts |-> alerts]

\* C11: when a ticker has trailing rows none of which carries a usable
\* price, the volatility screen skips it and goes on: the run does not
\* raise, and every ticker the screen emits from the store of that ticker
\* alone is in the run's list.
C11_DataProblemSkipsTicker ==
    (/\ lastOp = "volatility"
     /\ \E t \in Tickers : RowDates(DB, t) # {} /\ UsableTrailing(t) = <<>>)
    => /\ ~opps.volatility.raised
       /\ \A u \in Tickers :
            LET alone == screen_volatility_opportunities(OnlyTicker(u), config)
            IN ~alone.raised =>
                   TickersOf(alone.opps) \subseteq TickersOf(opps.volatility.list)

\* C12: a golden-cross run whose configuration lacks lookback_days, or
\* gives a negative lookback_days, fails with an error whatever the store
\* holds: it returns no list.
C12_BadConfigurationFailsRun ==
    (/\ lastOp = "golden_cross_configured"
     /\ (calc.lookback_days = Missing \/ calc.lookback_days < 0))
    => opps.golden_cross.raised

\* the mean of a non-empty series of prices
MeanPrice(prices) == SumSeq(prices) \div Len(prices)

\* the dividend rule: yield expansion and price discount against the mean
\* of the trailing prices
DividendRule(y, price, mean) ==
    /\ y - ((y * price) \div mean) >= config.dividend.min_yield_expansion_pp
    /\ Ratio(mean - price, mean) >=
            config.dividend.min_price_discount_vs_90d_avg

\* the dividend gates, on a snapshot and its trailing observations
DividendGates(row, observations) ==
    /\ NormalizeYield(row.dividend_yield) >= config.dividend.min_current_yield
    /\ row.pe_ratio > 0
    /\ row.pe_ratio <= config.dividend.max_pe_ratio
    /\ row.market_cap_eur >= config.dividend.min_market_cap_eur
    /\ Len(observations) >= MinHistoryRows

\* C17: a ticker that passes the dividend gates, has a price and a trailing
\* mean, and has no alert inside the duplicate window, is in the dividend
\* list exactly when its yield expansion and its price discount reach
\* their thresholds; so in the live screen, and so in the backtest screen
\* (which keeps no alerts).
C17_DividendRule ==
    /\ (lastOp = "dividend" /\ ~opps.dividend.raised) =>
        \A t \in Tickers :
            RowDates(DB, t) # {} =>
                LET row == SnapshotOn(t, MaxOf(RowDates(DB, t)))
                    history == get_stock_history(DB, t, HistoryDays)
                    prices == TruthyPrices(history)
                IN  (/\ DividendGates(row, history)
                     /\ ~Falsy(row.price_eur)
                     /\ prices # <<>>
                     /\ get_recent_alerts(DB, t,
                            config.alerts.duplicate_alert_days) = {})
                    => (t \in TickersOf(opps.dividend.list)
                        <=> DividendRule(NormalizeYield(row.dividend_yield),
                                row.price_eur, MeanPrice(prices)))
    /\ lastOp = "screen_on_date" =>
        \A t \in Tickers :
            HasRow(DB, t, bt.entry_date) =>
                LET row == SnapshotOn(t, bt.entry_date)
                    history == HistoryBefore(DB, t, bt.entry_date)
                    prices == TruthyPrices(history)
                IN  (/\ DividendGates(row, history)
                     /\ ~Falsy(row.price_eur)
                     /\ prices # <<>>)
                    => (t \in TickersOf(bt.dividend_opps)
                        <=> DividendRule(NormalizeYield(row.dividend_yield),
                                row.price_eur, MeanPrice(prices)))

\* the highest usable price of a trailing window, or the snapshot's
\* year-high when the window has none
TrailingHigh(row, window) ==
    LET prices == TruthyPrices(window)
    IN IF prices = <<>> THEN row.year_high_eur
       ELSE MaxOf({prices[i] : i \in 1..Len(prices)})

\* the volatility dip-buy rule on a snapshot and its trailing window
VolatilityRule(row, window) ==
    LET high == TrailingHigh(row, window)
    IN  /\ row.market_cap_eur >= config.volatility.min_market_cap_eur
        /\ (\/ row.beta >= config.volatility.min_beta
            \/ row.volatility >= config.volatility.min_volatility)
        /\ ~(row.pe_ratio > 0 /\ row.pe_ratio > config.volatility.max_pe_ratio)
        /\ ~Falsy(row.price_eur)
        /\ ~Falsy(high)
        /\ Ratio(row.price_eur - high, high)
                <= -config.volatility.min_drop_from_high

\* C18: a ticker among the candidates of the screen, without an alert
\* inside the duplicate window, is in the volatility list exactly when it
\* meets the dip-buy rule, taken against the highest price of its 90-day
\* trailing window, or against its year-high when it has no such window;
\* the length of the window plays no part.  So in the live screen, and so
\* in the backtest screen.
C18_VolatilityRule ==
    /\ (lastOp = "volatility" /\ ~opps.volatility.raised) =>
        \A t \in Tickers :
            (/\ t \in TickersOf(get_top_volatility_stocks(DB, TopStocksLimit))
             /\ get_recent_alerts(DB, t,
                    config.alerts.duplicate_alert_days) = {})
            => (t \in TickersOf(opps.volatility.list)
                <=> VolatilityRule(SnapshotOn(t, MaxOf(RowDates(DB, t))),
                        get_stock_history(DB, t, HistoryDays)))
    /\ lastOp = "screen_on_date" =>
        \A t \in TickersOf(StocksOnDate(DB, bt.entry_date,
                                config.dividend.min_market_cap_eur)) :
            t \in TickersOf(bt.volatility_opps)
            <=> VolatilityRule(SnapshotOn(t, bt.entry_date),
                    HistoryBefore(DB, t, bt.entry_date))

\* the trailing min(n, 252) prices of a series, as a set
Week52Range(prices) ==
    LET n == Len(prices)
    IN {prices[i] : i \in (n - Min(n, Week52Period) + 1)..n}

\* eligibility for the 52-week-low strategy, on the normalized yield
Week52LowEligible(row) ==
    /\ row.market_cap_eur >= config.week_52_low.min_market_cap_eur
    /\ row.pe_ratio > 0
    /\ row.pe_ratio <= config.week_52_low.max_pe_ratio
    /\ NormalizeYield(row.dividend_yield)
            >= config.week_52_low.min_dividend_yield

\* C19: the 52-week high and low of every opportunity are the maximum and
\* the minimum of the trailing min(n, 252) prices of the ticker's series;
\* and an eligible ticker with a price, at least 100 trailing observations
\* and no alert of this strategy inside the duplicate window is in the list
\* exactly when its distance from that low is at most
\* max_distance_from_low_pct.
C19_Week52LowRule ==
    (lastOp = "52_week_low" /\ ~opps["52_week_low"].raised) =>
        /\ \A o \in Elems(opps["52_week_low"].list) :
            LET range == Week52Range(
                            get_price_history(DB, o.ticker, PriceHistoryDays))
            IN  /\ o.week_52_high = MaxOf(range)
                /\ o.week_52_low = MinOf(range)
        /\ \A t \in Tickers :
            RowDates(DB, t) # {} =>
                LET row == SnapshotOn(t, MaxOf(RowDates(DB, t)))
                    prices == get_price_history(DB, t, PriceHistoryDays)
                    low == MinOf(Week52Range(prices))
                IN  (/\ Week52LowEligible(row)
                     /\ ~Falsy(row.price_eur)
                     /\ Len(prices) >= Min52WeekPrices
                     /\ PairAlerts(t, "52_week_low") = {})
                    => (t \in TickersOf(opps["52_week_low"].list)
                        <=> Ratio(row.price_eur - low, low)
                                <= config.week_52_low.max_distance_from_low_pct)

\* C19 happens: the list holds a ticker whose series is longer than the
\* range and has an older price below the low of the range, and an
\* eligible ticker with enough observations and no alert is left out for
\* its distance.
C19_Witness ==
    /\ lastOp = "52_week_low"
    /\ ~opps["52_week_low"].raised
    /\ \E o \in Elems(opps["52_week_low"].list) :
        LET prices == get_price_history(DB, o.ticker, PriceHistoryDays)
        IN Len(prices) > Week52Period /\ prices[1] < o.week_52_low
    /\ \E t \in Tickers :
        /\ RowDates(DB, t) # {}
        /\ Week52LowEligible(SnapshotOn(t, MaxOf(RowDates(DB, t))))
        /\ Len(get_price_history(DB, t, PriceHistoryDays)) >= Min52WeekPrices
        /\ PairAlerts(t, "52_week_low") = {}
        /\ t \notin TickersOf(opps["52_week_low"].list)

\* the place of a ticker in a list of rows or opportunities
PlaceOf(list, t) == CHOOSE i \in 1..Len(list) : list[i].ticker = t

\* the opportunities the loop of the dividend screen appends, in the order
\* in which it appends them
DividendDiscovered ==
    DividendScan(DB, config, get_top_dividend_stocks(DB, TopStocksLimit), 1,
                 EmptyScan).opps

\* C20: the list a screen returns names a ticker once and is in the order
\* of its strategy: dividend by yield expansion, largest first; volatility
\* by drop from high, most negative first; 52-week low by distance from
\* low, smallest first; golden cross in the order of discovery, that of
\* the candidates.
C20_ListsOrdered ==
    /\ \A s \in Strategies :
            Cardinality(TickersOf(opps[s].list)) = Len(opps[s].list)
    /\ lastOp = "dividend" =>
        LET list == opps.dividend.list
        IN \A i, j \in 1..Len(list) :
            i < j => list[i].yield_expansion_pp >= list[j].yield_expansion_pp
    /\ lastOp = "volatility" =>
        LET list == opps.volatility.list
        IN \A i, j \in 1..Len(list) :
            i < j => list[i].drop_from_high <= list[j].drop_from_high
    /\ lastOp = "52_week_low" =>
        LET list == opps["52_week_low"].list
        IN \A i, j \in 1..Len(list) :
            i < j => list[i].distance_from_low_pct
                        <= list[j].distance_from_low_pct
    /\ lastOp \in {"golden_cross", "golden_cross_configured"} =>
        LET list == opps.golden_cross.list
            cands == GoldenCrossCandidates(DB, config)
        IN \A i, j \in 1..Len(list) :
            i < j => PlaceOf(cands, list[i].ticker)
                        < PlaceOf(cands, list[j].ticker)

\* C20 happens: the dividend screen returns two opportunities of different
\* yield expansion that its loop found in the other order.
C20_Witness ==
    /\ lastOp = "dividend"
    /\ Len(opps.dividend.list) = 2
    /\ opps.dividend.list[1].yield_expansion_pp
            > opps.dividend.list[2].yield_expansion_pp
    /\ DividendDiscovered = <<opps.dividend.list[2], opps.dividend.list[1]>>

----------------------------------------------------------------------------
(* A run of the four screens over one store, as                            *)
(* load_opportunities_from_screener makes it, with the screens taken in    *)
(* any order.  An exception of a screen ends the run.                      *)

\* the alerts table after a screen that records as it goes
AlertsAfterScreenRecording(db, opportunities, strategy) ==
    record_alerts(db, opportunities, strategy).alerts

\* the alerts table after a screen: no screen calls add_alert
AlertsAfterScreen(db, opportunities, strategy) == db.alerts

InitRun ==
    /\ stock_data \in StoresOf(LiveShapes)
    /\ alerts \in ScreenAlerts
    /\ now = Today0
    /\ tz = 0
    /\ opps = [s \in Strategies |-> NotRun]
    /\ trailing = {}
    /\ lastOp = "init"
    /\ bt = NoBacktest
    /\ calc = NoCalc
    /\ ran = [done |-> {}, alerts0 |-> alerts]
    /\ mail = NoMail

RunScreen(s) ==
    LET scan == ScreenOf(s, DB)
    IN  /\ s \notin ran.done
        /\ \A r \in ran.done : ~opps[r].raised
        /\ opps' = [opps EXCEPT ![s] = Returned(scan)]
        /\ alerts' = AlertsAfterScreen(DB, Returned(scan).list, s)
        /\ trailing' = scan.trail
        /\ ran' = [ran EXCEPT !.done = @ \cup {s}]
        /\ lastOp' = s
        /\ UNCHANGED <<stock_data, now, tz, bt, calc, mail>>

NextRun == \E s \in Strategies : RunScreen(s)

SpecRun == InitRun /\ [][NextRun]_vars

\* the store as the current run found it
RunStartDB == [stock_data |-> stock_data, alerts |-> ran.alerts0]

----------------------------------------------------------------------------
(* The snapshot store under add_stock_data, as fetch_data.py and           *)
(* fetch_data_historical.py call it: once per ticker and date of a fetch,  *)
(* and again on every later fetch of the same date.                        *)

\* the dates a fetch writes: the latest two of the grid
FetchDates == {DateOf(NumDates - 1), Today0}

\* the data of one call: ticker, date and the row's columns
FetchedData ==
    { [ticker |-> t, date |-> d, row |-> StoredRow(f, price)] :
        t \in Tickers, d \in FetchDates,
        f \in {g \in Fundamentals : g.market_cap_eur = 500},
        price \in {PriceLow, PriceHigh} }

\* INSERT OR REPLACE INTO stock_data ... under UNIQUE(ticker, date)
add_stock_data(db, data) ==
    [db EXCEPT !.stock_data[data.ticker][data.date] = data.row]

InitStore ==
    /\ stock_data = [t \in Tickers |-> [d \in Dates |-> NoRow]]
    /\ alerts = {}
    /\ now = Today0
    /\ tz = 0
    /\ opps = [s \in Strategies |-> NotRun]
    /\ trailing = {}
    /\ lastOp = "init"
    /\ bt = NoBacktest
    /\ calc = NoCalc
    /\ ran = NoRun
    /\ mail = NoMail

AddStockData ==
    \E data \in FetchedData :
        /\ stock_data' = add_stock_data(DB, data).stock_data
        /\ lastOp' = "add_stock_data"
        /\ UNCHANGED <<alerts, now, tz, opps, trailing, bt, calc, ran, mail>>

NextStore == AddStockData

SpecStore == InitStore /\ [][NextStore]_vars

\* C22: a snapshot recorded for a (ticker, date) is not changed by any
\* later call of add_stock_data.
C22_SnapshotNeverChanged ==
    [][\A t \in Tickers, d \in Dates :
        stock_data[t][d] # NoRow => stock_data'[t][d] = stock_data[t][d]]_vars

----------------------------------------------------------------------------

\* the operations that only read: the live screens and the backtest's
\* screen_on_date and calculate_returns
ReadOnlyOps ==
    Strategies \cup {"golden_cross_configured", "screen_on_date",
                     "calculate_returns"}

\* C23: a step of a live screen, of screen_on_date or of calculate_returns
\* leaves the snapshot store and the alert store as they were, and what
\* the two backtest operations return is what they return on the same
\* snapshots with an empty alert store.
C23_ScreensOnlyRead ==
    [][lastOp' \in ReadOnlyOps =>
        /\ stock_data' = stock_data
        /\ alerts' = alerts
        /\ LET clean == [stock_data |-> stock_data', alerts |-> {}]
           IN  /\ lastOp' = "screen_on_date" =>
                    LET screened == screen_on_date(clean, config,
                                                   bt'.entry_date)
                    IN  /\ bt'.dividend_opps = screened.dividend_opps
                        /\ bt'.volatility_opps = screened.volatility_opps
               /\ lastOp' = "calculate_returns" =>
                    /\ bt'.dividend_results =
                        calculate_returns(clean, bt'.dividend_opps,
                                          bt'.exit_date)
                    /\ bt'.volatility_results =
                        calculate_returns(clean, bt'.volatility_opps,
                                          bt'.exit_date)]_vars

\* C23 happens: calculate_returns has returned a trade of a ticker that has
\* an alert on record.
C23_Witness ==
    /\ lastOp = "calculate_returns"
    /\ \E a \in alerts :
            a.ticker \in TickersOf(bt.dividend_results)
                            \cup TickersOf(bt.volatility_results)

----------------------------------------------------------------------------
(* common/email_alerts.py and send_alerts.py: the daily run that screens   *)
(* and emails, next to the run of screener_enhanced.py that screens and    *)
(* records.                                                                *)

MaxLookback == 2    \* largest lookback_days handed to process_and_send_alerts

\* lookback_days: send_alerts.py passes 1, which is also the default
Lookbacks == 1..MaxLookback

\* EmailAlertSystem.get_recent_alerts: alert_date >= cutoff_date, the
\* cutoff taken from datetime.now(), the local date
email_get_recent_alerts(db, lookback_days) ==
    {a \in db.alerts : a.alert_date >= (now + tz) - lookback_days}

\* filter_new_opportunities keyed on the ticker alone
filter_new_opportunities_by_ticker(db, opportunities, strategy_type, lookback_days) ==
    LET recent_alerts == email_get_recent_alerts(db, lookback_days)
    IN SelectSeq(opportunities, LAMBDA opp :
            ~\E a \in recent_alerts : a.ticker = opp.ticker)

filter_new_opportunities(db, opportunities, strategy_type, lookback_days) ==
    LET recent_alerts == email_get_recent_alerts(db, lookback_days)
        recent_alert_keys ==
            {<<a.ticker, a.strategy>> : a \in recent_alerts}
    IN SelectSeq(opportunities, LAMBDA opp :
            <<opp.ticker, strategy_type>> \notin recent_alert_keys)

\* insert_alert: alert_date = DATE('now'), the UTC date
insert_alert(db, ticker, strategy_type) ==
    [db EXCEPT !.alerts = @ \cup
        {[ticker |-> ticker, strategy |-> strategy_type, alert_date |-> now]}]

\* for opp in new_...: self.insert_alert(opp['ticker'], strategy, opp)
RECURSIVE insert_alerts(_, _, _)
insert_alerts(db, opportunities, strategy_type) ==
    IF opportunities = <<>> THEN db
    ELSE insert_alerts(insert_alert(db, Head(opportunities).ticker,
                                    strategy_type),
                       Tail(opportunities), strategy_type)

\* the alerts of one call's new opportunities, as insert_alert writes them
NewAlerts(new) ==
    {[ticker |-> p[1], strategy |-> p[2], alert_date |-> now] :
        p \in {q \in Tickers \X Strategies : q[1] \in TickersOf(new[q[2]])}}

\* process_and_send_alerts that records before it sends
process_and_send_alerts_record_first(db, lists, lookback_days, smtp_ok) ==
    LET new == [s \in Strategies |->
                    filter_new_opportunities(db, lists[s], s, lookback_days)]
        total_new == Len(new["dividend"]) + Len(new["volatility"])
                        + Len(new["52_week_low"]) + Len(new["golden_cross"])
        db1 == insert_alerts(db, new["dividend"], "dividend")
        db2 == insert_alerts(db1, new["volatility"], "volatility")
        db3 == insert_alerts(db2, new["52_week_low"], "52_week_low")
        db4 == insert_alerts(db3, new["golden_cross"], "golden_cross")
    IN  IF total_new > 0
        THEN [db |-> db4, new |-> new,
              outcome |-> IF smtp_ok THEN "sent" ELSE "failed"]
        ELSE [db |-> db, outcome |-> "nothing", new |-> new]

\* process_and_send_alerts(dividend, volatility, 52_week_low, golden_cross,
\* lookback_days); smtp_ok: whether send_email gets the message out
process_and_send_alerts(db, lists, lookback_days, smtp_ok) ==
    LET new == [s \in Strategies |->
                    filter_new_opportunities(db, lists[s], s, lookback_days)]
        total_new == Len(new["dividend"]) + Len(new["volatility"])
                        + Len(new["52_week_low"]) + Len(new["golden_cross"])
        db1 == insert_alerts(db, new["dividend"], "dividend")
        db2 == insert_alerts(db1, new["volatility"], "volatility")
        db3 == insert_alerts(db2, new["52_week_low"], "52_week_low")
        db4 == insert_alerts(db3, new["golden_cross"], "golden_cross")
    IN  IF total_new > 0
        THEN IF smtp_ok
             THEN [db |-> db4, outcome |-> "sent", new |-> new]
             ELSE [db |-> db, outcome |-> "failed", new |-> new]  \* raise
        ELSE [db |-> db, outcome |-> "nothing", new |-> new]

\* the stores of the email runs
MailShapes == {"flat", "dip", "rise"}

InitMail ==
    /\ stock_data \in StoresOf(MailShapes)
    /\ alerts = {}
    /\ now = Today0
    /\ tz \in TzOffsets
    /\ opps = [s \in Strategies |-> NotRun]
    /\ trailing = {}
    /\ lastOp = "init"
    /\ bt = NoBacktest
    /\ calc = NoCalc
    /\ ran = NoRun
    /\ mail = NoMail

\* load_opportunities_from_screener: the four screens, in this order
LoadOpportunities ==
    LET scans == [s \in Strategies |-> ScreenOf(s, DB)]
    IN  /\ opps' = [s \in Strategies |-> Returned(scans[s])]
        /\ trailing' = UNION {scans[s].trail : s \in Strategies}
        /\ lastOp' = "load_opportunities"
        /\ UNCHANGED <<stock_data, alerts, now, tz, bt, calc, ran, mail>>

\* send_alerts.main after the screens: process_and_send_alerts on their
\* lists; an exception of a screen ends main before it
ProcessAndSendAlerts ==
    \E lookback_days \in Lookbacks, smtp_ok \in BOOLEAN :
        LET lists == [s \in Strategies |-> opps[s].list]
            done == process_and_send_alerts(DB, lists, lookback_days, smtp_ok)
        IN  /\ lastOp \in {"load_opportunities", "process_and_send_alerts"}
            /\ \A s \in Strategies : ~opps[s].raised
            /\ alerts' = done.db.alerts
            /\ mail' = [emailed |->
                            IF done.outcome = "sent"
                            THEN mail.emailed \cup NewAlerts(done.new)
                            ELSE mail.emailed,
                        outcome |-> done.outcome,
                        sent_now |->
                            IF done.outcome = "sent"
                            THEN {<<a.ticker, a.strategy>> :
                                    a \in NewAlerts(done.new)}
                            ELSE {},
                        lookback_days |-> lookback_days,
                        new |-> [s \in Strategies |-> Len(done.new[s])]]
            /\ lastOp' = "process_and_send_alerts"
            /\ UNCHANGED <<stock_data, now, tz, opps, trailing, bt, calc, ran>>

\* screener_enhanced.main: the dividend and the volatility screen, then
\* record_alerts for each list that is not empty
ScreenerMain ==
    LET dividend == screen_dividend_opportunities(DB, config)
        volatility == screen_volatility_opportunities(DB, config)
        db1 == record_alerts(DB, dividend.opps, "dividend")
        db2 == record_alerts(db1, volatility.opps, "volatility")
    IN  /\ ~dividend.raised
        /\ ~volatility.raised
        /\ alerts' = db2.alerts
        /\ opps' = [s \in Strategies |->
                        IF s = "dividend" THEN Returned(dividend)
                        ELSE IF s = "volatility" THEN Returned(volatility)
                        ELSE NotRun]
        /\ trailing' = dividend.trail \cup volatility.trail
        /\ lastOp' = "screener_main"
        /\ UNCHANGED <<stock_data, now, tz, bt, calc, ran, mail>>

NextMail == LoadOpportunities \/ ProcessAndSendAlerts \/ ScreenerMain

SpecMail == InitMail /\ [][NextMail]_vars


\* the (ticker, strategy) pairs of the lists in hand that have no alert
\* dated within the last lookback_days days of the clock's date
FreshPairs(lookback_days) ==
    {q \in Tickers \X Strategies :
        /\ q[1] \in TickersOf(opps[q[2]].list)
        /\ ~\E a \in alerts :
                /\ a.ticker = q[1]
                /\ a.strategy = q[2]
                /\ a.alert_date >= (now + tz) - lookback_days}

----------------------------------------------------------------------------
(* detect_golden_cross called once per new observation of one series, as   *)
(* the daily run of screen_golden_cross calls it on the growing history of *)
(* a ticker.                                                               *)

MaxWatch == 8       \* observations of a watched series
MaxWatchLookback == 2   \* largest lookback_days of a watched series

InitWatch ==
    /\ stock_data = [t \in Tickers |-> [d \in Dates |-> NoRow]]
    /\ alerts = {}
    /\ now = Today0
    /\ tz = 0
    /\ opps = [s \in Strategies |-> NotRun]
    /\ trailing = {}
    /\ lastOp = "init"
    /\ bt = NoBacktest
    /\ calc \in [op : {"watch"}, prices : {<<>>},
                 arg : 1..MaxWatchLookback, reports : {<<>>}]
    /\ ran = NoRun
    /\ mail = NoMail

\* a new price arrives and detect_golden_cross runs on the series so far
Observe ==
    \E price \in IndicatorPrices :
        LET prices == Append(calc.prices, price)
        IN  /\ Len(calc.prices) < MaxWatch
            /\ calc' = [calc EXCEPT
                    !.prices = prices,
                    !.reports = Append(@,
                        detect_golden_cross(prices, calc.arg).detected)]
            /\ UNCHANGED <<stock_data, alerts, now, tz, opps, trailing,
                           lastOp, bt, ran, mail>>

NextWatch == Observe

SpecWatch == InitWatch /\ [][NextWatch]_vars

\* the first k observations of the watched series
Observed(k) == SubSeq(calc.prices, 1, k)

\* the short average goes from not above to above the long one with the
\* c-th observation, stays above on every later one, and every evaluation
\* from the c-th on has 200 + lookback_days + 1 observations
CrossesAt(c) ==
    /\ c >= LongPeriod + calc.arg + 1
    /\ c <= Len(calc.prices)
    /\ ~ShortAboveLong(Observed(c - 1))
    /\ \A k \in c..Len(calc.prices) : ShortAboveLong(Observed(k))

\* C25: for a cross at the c-th observation that holds afterwards, the
\* evaluations that report it are exactly the lookback_days evaluations
\* from the c-th on: c, ..., c + lookback_days - 1, and none after.
C25_CrossReportedUntilAgedOut ==
    \A c \in 1..Len(calc.prices) :
        CrossesAt(c) =>
            \A k \in c..Len(calc.prices) :
                calc.reports[k] <=> (k < c + calc.arg)

\* C25 happens: a cross with lookback_days 2 has been reported twice and
\* then, on the third evaluation, no more.
C25_Witness ==
    \E c \in 1..Len(calc.prices) :
        /\ CrossesAt(c)
        /\ calc.arg = MaxWatchLookback
        /\ Len(calc.prices) >= c + calc.arg
        /\ \A k \in c..(c + calc.arg - 1) : calc.reports[k]
        /\ ~calc.reports[c + calc.arg]

----------------------------------------------------------------------------
(* The exit date of a backtest.                                            *)

\* the dates that have a row in stock_data
DataDates == {d \in Dates : \E t \in Tickers : HasRow(DB, t, d)}

\* a run of run_backtest that got as far as choosing its dates
BacktestDated ==
    lastOp = "run_backtest" /\ bt.status \in {"no_opportunities", "reported"}

\* C26: the exit date of run_backtest is the latest date of the data that is
\* not after entry_date + holding_period_days; it is neither before the entry
\* date nor after entry_date + holding_period_days.
C26_ExitDateSnapsBack ==
    BacktestDated =>
        LET latest == bt.entry_date + bt.params.holding_period_days
        IN  /\ bt.exit_date \in DataDates
            /\ bt.exit_date <= latest
            /\ \A d \in DataDates : d <= latest => d <= bt.exit_date
            /\ bt.exit_date >= bt.entry_date

\* C26 happens: the data has no row on entry_date + holding_period_days and
\* the backtest exits on an earlier date after its entry date.
C26_Witness ==
    /\ BacktestDated
    /\ bt.exit_date > bt.entry_date
    /\ bt.exit_date < bt.entry_date + bt.params.holding_period_days

----------------------------------------------------------------------------
(* screener_phase1.py: apply_technical_filters.                            *)

MinFilterPrices == 3     \* len(prices) < 50, scaled

\* the filters of one turn of the loop, on the indicators of the ticker
FilterOnIndicators(tech_config, opp, indicators) ==
    LET rsi_read == tech_config.use_rsi /\ ~Falsy(indicators.rsi)
        rsi_out == rsi_read /\ indicators.rsi > tech_config.rsi_threshold
        with_rsi == IF rsi_read /\ ~rsi_out
                    THEN [rsi |-> indicators.rsi,
                          is_oversold |-> indicators.is_oversold] @@ opp
                    ELSE opp
        ma_out == /\ ~rsi_out
                  /\ tech_config.use_moving_averages
                  /\ tech_config.require_above_50ma
                  /\ Falsy(indicators.above_ma_50)
        with_ma == IF ~rsi_out /\ tech_config.use_moving_averages /\ ~ma_out
                   THEN [ma_50 |-> indicators.ma_50,
                         ma_200 |-> indicators.ma_200] @@ with_rsi
                   ELSE with_rsi
    IN  [keep |-> ~rsi_out /\ ~ma_out, opp |-> with_ma]

\* one turn of the loop, on the price history of the ticker
FilterOnPrices(tech_config, opp, prices) ==
    IF Falsy(opp.price_eur) THEN [keep |-> TRUE, opp |-> opp]
    ELSE IF Len(prices) < MinFilterPrices THEN [keep |-> TRUE, opp |-> opp]
    ELSE FilterOnIndicators(tech_config, opp,
                            calculate_all_indicators(prices, opp.price_eur))

\* one turn of the loop over the opportunities: whether the opportunity is
\* appended to filtered, and the opportunity with the keys the turn set
TechnicalFilterStep(db, tech_config, opp) ==
    FilterOnPrices(tech_config, opp,
                   get_price_history(db, opp.ticker, PriceHistoryDays))

\* the list apply_technical_filters returns and the list passed in, whose
\* dicts the loop has written to
FilterResult(steps) ==
    LET kept == SelectSeq(steps, LAMBDA step : step.keep)
    IN [filtered |-> [i \in 1..Len(kept) |-> kept[i].opp],
        opportunities |-> [i \in 1..Len(steps) |-> steps[i].opp]]

\* apply_technical_filters(opportunities, db, config)
apply_technical_filters(opportunities, db, tech_config) ==
    IF ~tech_config.use_rsi /\ ~tech_config.use_moving_averages
        THEN [filtered |-> opportunities, opportunities |-> opportunities]
    ELSE FilterResult([i \in 1..Len(opportunities) |->
                TechnicalFilterStep(db, tech_config, opportunities[i])])

\* config['technical_filters']; rsi_threshold is 40 when the key is absent
TechConfigs ==
    [use_rsi : BOOLEAN, use_moving_averages : BOOLEAN,
     require_above_50ma : BOOLEAN, rsi_threshold : {10 * 100, 40 * 100}]

FilterShapes == {"flat", "dip", "dip2", "bounce", "rise", "short"}

FilteredStrategies == {"dividend", "volatility"}

InitFilters ==
    /\ stock_data \in StoresOf(FilterShapes)
    /\ alerts = {}
    /\ now = Today0
    /\ tz = 0
    /\ opps = [s \in Strategies |-> NotRun]
    /\ trailing = {}
    /\ lastOp = "init"
    /\ bt = NoBacktest
    /\ calc = NoCalc
    /\ ran = NoRun
    /\ mail = NoMail

\* the list of the screen that has run goes through apply_technical_filters
ApplyTechnicalFilters ==
    \E strategy \in FilteredStrategies, tech_config \in TechConfigs :
        \E result \in {apply_technical_filters(opps[strategy].list, DB,
                                               tech_config)} :
            /\ lastOp = strategy
            /\ ~opps[strategy].raised
            /\ calc' = [op |-> "apply_technical_filters",
                        tech_config |-> tech_config,
                        opportunities |-> opps[strategy].list,
                        filtered |-> result.filtered]
            /\ opps' = [opps EXCEPT ![strategy].list = result.opportunities]
            /\ lastOp' = "apply_technical_filters"
            /\ UNCHANGED <<stock_data, alerts, now, tz, trailing, bt, ran,
                           mail>>

NextFilters ==
    \/ (lastOp = "init" /\ ScreenDividend)
    \/ (lastOp = "init" /\ ScreenVolatility)
    \/ ApplyTechnicalFilters

SpecFilters == InitFilters /\ [][NextFilters]_vars

\* the tickers of a list, in its order
TickerSeq(list) == [i \in 1..Len(list) |-> list[i].ticker]

\* what the filters are to discard: with a filter enabled and 50 prices at
\* hand, an RSI above rsi_threshold or, when the 50-day average is
\* required, a price below that average
Discarded(opp, tech_config) ==
    LET prices == get_price_history(DB, opp.ticker, PriceHistoryDays)
        rsi == calculate_rsi(prices, RsiPeriod)
        ma_50 == calculate_sma(prices, ShortPeriod)
    IN  /\ tech_config.use_rsi \/ tech_config.use_moving_averages
        /\ Len(prices) >= MinFilterPrices
        /\ \/ /\ tech_config.use_rsi
              /\ rsi # None
              /\ rsi > tech_config.rsi_threshold
           \/ /\ tech_config.use_moving_averages
              /\ tech_config.require_above_50ma
              /\ ma_50 # None
              /\ opp.price_eur < ma_50

\* C27: apply_technical_filters returns, in the order of its input, exactly
\* the opportunities that are not to be discarded: all of them with both
\* filters disabled; otherwise all but those whose RSI exceeds rsi_threshold
\* or whose price is below the required 50-day average, a price equal to
\* the average being kept.
C27_FiltersDiscardExactly ==
    calc.op = "apply_technical_filters" =>
        TickerSeq(calc.filtered) =
            TickerSeq(SelectSeq(calc.opportunities,
                LAMBDA opp : ~Discarded(opp, calc.tech_config)))

----------------------------------------------------------------------------
(* A failing send_email, and a call with nothing new.                      *)

\* C28: a call of process_and_send_alerts whose send_email fails records no
\* alert and counts no email as sent, so that a call that follows on it with
\* the same lists and lookback_days finds the same opportunities new again;
\* and a call that finds no new opportunity sends no email and records no
\* alert.
C28_FailedSendRecordsNothing ==
    [][lastOp' = "process_and_send_alerts" =>
        /\ mail'.outcome = "failed" =>
                /\ alerts' = alerts
                /\ mail'.emailed = mail.emailed
                /\ mail'.sent_now = {}
        /\ (/\ lastOp = "process_and_send_alerts"
            /\ mail.outcome = "failed"
            /\ mail'.lookback_days = mail.lookback_days)
           => /\ mail'.outcome \in {"sent", "failed"}
              /\ mail'.new = mail.new
              /\ mail'.outcome = "sent" =>
                    mail'.sent_now = FreshPairs(mail.lookback_days)
        /\ mail'.outcome = "nothing" =>
                /\ alerts' = alerts
                /\ mail'.emailed = mail.emailed
                /\ mail'.sent_now = {}]_vars

\* C28 happens: send_email has failed on new opportunities and the alert
\* store holds no record of them.
C28_Witness ==
    /\ lastOp = "process_and_send_alerts"
    /\ mail.outcome = "failed"
    /\ \E s \in Strategies : mail.new[s] > 0
    /\ \A q \in FreshPairs(mail.lookback_days) :
            ~\E a \in alerts : a.ticker = q[1] /\ a.strategy = q[2]
    /\ FreshPairs(mail.lookback_days) # {}

----------------------------------------------------------------------------
(* The alert store and the emails that went out.                           *)

\* C29: after any runs of the screener and of send_alerts, every record of
\* the alert store is of a (ticker, strategy) that was part of an email
\* that was sent.
C29_AlertsWereEmailed ==
    \A a \in alerts :
        \E e \in mail.emailed :
            e.ticker = a.ticker /\ e.strategy = a.strategy

----------------------------------------------------------------------------
(* The RSI flags of calculate_all_indicators.                              *)

\* C30: whenever calculate_rsi yields a value for the series, 0 and 100
\* included, calculate_all_indicators sets is_oversold to rsi < 30 and
\* is_overbought to rsi > 70; the two flags are None only when the RSI is
\* None.
C30_RsiFlagsFollowRsi ==
    (calc.op = "calculate_all_indicators" /\ ~calc.result.raised) =>
        LET rsi == calculate_rsi(calc.prices, RsiPeriod)
        IN  IF rsi # None
            THEN /\ calc.result.is_oversold = (IF rsi < 30 * 100 THEN 1 ELSE 0)
                 /\ calc.result.is_overbought =
                        (IF rsi > 70 * 100 THEN 1 ELSE 0)
            ELSE /\ calc.result.is_oversold = None
                 /\ calc.result.is_overbought = None

====
